---- MODULE Spec2Model ----
(***************************************************************************)
(* Two-tier object cache (memory tier in front of Redis) of                *)
(* github.com/seaguest/cache, modelled from cache.go, mem_cache.go,        *)
(* item.go, metrics.go and redis.go.                                       *)
(*                                                                         *)
(* Durations and instants are counted in half seconds, so that a ttl with  *)
(* a fraction of a second can be written: Second == 2.                     *)
(* One process is modelled: its callers (slots), the worker goroutine each *)
(* GetObject / SetObject call starts, the asynchronous reload goroutine a  *)
(* stale read starts, the subscriber loop (watch) and the janitor.         *)
(***************************************************************************)
EXTENDS Integers, Sequences, FiniteSets, TLC

\* ------------------------------------------------------------------ bounds
NumSlots == 2
MaxCalls == 2
MaxTime == 2
MaxFaults == 1

\* --------------------------------------------------------------- constants
Second == 2
GetPolicyReturnExpired == 1
GetPolicyReloadOnExpiry == 2
UpdatePolicyBroadcast == 1
UpdatePolicyNoBroadcast == 2
DefaultRedisTTLFactor == 4
cacheSet == 1
cacheDelete == 2

Slots == 1 .. NumSlots
\* goroutines: the worker of slot c is c, its asynchronous reload is c + NumSlots
Gor == 1 .. (2 * NumSlots)
W(c) == c
A(c) == c + NumSlots
SlotOf(g) == IF g > NumSlots THEN g - NumSlots ELSE g
NoGor == 0
Dsts == 1..MaxCalls

\* cache.go:22, 65-68  the namespace of the cache
Namespace == "default"
\* the keys callers pass, object type and id around the separator "#"
UserKeys == {"t#1"}
\* cache.go:394-396  the key under which both tiers and the broadcasts know
\* an entry
namespacedKey(key) == Namespace \o ":" \o key
Keys == {namespacedKey(key) : key \in UserKeys}
\* the ttl arguments callers pass: -1.5s, -1s, 0, 0.5s, 1s
CallTTLs == {-3, -2, 0, 1, 2}
\* per-call GetPolicy option: 0 is "not given"
CallGetPolicies == {0, GetPolicyReloadOnExpiry}
\* what the caller-supplied loader does when it is invoked
LoaderOutcomes == {"ok", "error", "panicError", "panicString"}

\* ------------------------------------------------------------------ errors
\* id: identity of the underlying error value ("" for an error made by
\* errors.New at the point of failure), msg: its Error() text,
\* stack: wrapped by errors.WithStack.
MkErr(id, msg) == [id |-> id, msg |-> msg, stack |-> FALSE]
Nil == MkErr("nil", "")
ErrIllegalTTL == MkErr("ErrIllegalTTL", "illegal ttl, must be in whole numbers of seconds, no fractions")
CtxErr == MkErr("context", "context deadline exceeded")
LoaderErr == MkErr("loaderErr", "unknown error")
PanicErr == MkErr("panicErr", "panic error")
RedisErr == MkErr("redisErr", "redis: connection error")
PanicText == "panic string"
WithStack(e) == IF e = Nil THEN Nil ELSE [e EXCEPT !.stack = TRUE]
ErrorsNew(text) == MkErr("", text)
ErrorsIs(e, target) == e.id # "" /\ e.id # "nil" /\ e.id = target.id

\* ----------------------------------------------------------------- objects
\* An object is a reference: kind "ld" is the object the id-th loader call
\* returned (its content is id), "arg" the object a SetObject caller passed,
\* "dec" an object the subscriber allocated and decoded into, "out" the
\* destination the id-th call passed, whose content is out[id] and which its caller can
\* change.
Ref(kind, id) == [kind |-> kind, id |-> id]
NoObj == Ref("nil", 0)
NoItem == [obj |-> NoObj, size |-> 0, expireAt |-> 0 - 1]
Dirty == 0 - 1
ZeroValue == 0

\* marshal / unmarshal of an object's content (encoding.go)
marshal(v) == <<"{", v, "}">>
unmarshal(bs) == bs[2]

VARIABLES
    now,        \* the clock, in half seconds
    options,    \* c.options
    types,      \* c.types: the one object type's registration
    mem,        \* c.mem.items
    redis,      \* the shared Redis keyspace
    channel,    \* messages published on the action channel, not yet received
    sfg,        \* c.sfg: the flights in progress, per namespace and key
    cpc,        \* where each caller is
    call,       \* the arguments of the caller's current or last call
    ctxDone,    \* ctx.Done() of the caller's call is closed
    res,        \* the error the caller's last call returned
    out,        \* content of each caller's destination object
    pc,         \* where each goroutine is
    loc,        \* each goroutine's local variables
    metrics,    \* the metric types onMetric received, per slot
    onError,    \* number of OnError callsLeft
    loads,      \* number of loader invocations
    callsLeft,  \* how many more API callsLeft the callers make
    faultsLeft, \* how many more Redis commands fail
    hist,       \* what has happened so far (interference the claims exclude)
    peer,       \* another process of the namespace: its subscription and memory tier
    sub,        \* the subscriber of watch: where it is and its connection
    jan         \* the janitor of the memory tier: where its sweep is

vars == <<now, options, types, mem, redis, channel, sfg, cpc, call, ctxDone,
          res, out, pc, loc, metrics, onError, loads, callsLeft, faultsLeft, hist,
          peer, sub, jan>>

\* -------------------------------------------------------------------- Item
\* item.go:17-27
newItem(v, ttl) ==
    [obj |-> v, size |-> 0, expireAt |-> IF ttl > 0 THEN now + ttl ELSE 0]

\* an Item counts as expired from the instant of ExpireAt on
ExpiredFromInstant(it) == it.expireAt # 0 /\ it.expireAt <= now

\* item.go:29-31
Expired(it) == it.expireAt # 0 /\ it.expireAt < now

\* time.Duration.Truncate(time.Second): rounds toward zero
Truncate(d) == IF d >= 0 THEN d - (d % Second) ELSE 0 - ((0 - d) - ((0 - d) % Second))

\* cache.go:132 and cache.go:198
\* only a strictly positive whole number of seconds passes
IllegalTTLUnlessPositive(ttl) == ttl <= 0 \/ ttl % Second # 0

IllegalTTL(ttl) == ttl > Truncate(ttl)

\* ----------------------------------------------------------------- metrics
Emit(log, c, m) == [log EXCEPT ![c] = Append(@, m)]
\* metrics.go:38-62: nothing is reported when the captured error is set
Observe(log, c, m, err) == IF err # Nil THEN log ELSE Emit(log, c, m)

NoFlight == [leader |-> NoGor, waiters |-> {}]
NoLoc == [key |-> namespacedKey("t#1"), ttl |-> 0, gp |-> 0, up |-> 0, expired |-> FALSE,
          it |-> NoItem, err |-> Nil, ret |-> "", o |-> NoObj, staleVal |-> 0,
          busy |-> FALSE, flightStale |-> 0, hitVal |-> 0,
          swept |-> FALSE, typeSeen |-> FALSE, getFailed |-> FALSE]
NoCall == [kind |-> "none", ukey |-> "t#1", key |-> namespacedKey("t#1"), ttl |-> 0, gp |-> 0, dst |-> 0, ctxAt |-> ""]

\* cache.go:84-87  New: an update policy left unspecified is NoBroadcast
newUpdatePolicy(p) == IF p = 0 THEN UpdatePolicyNoBroadcast ELSE p

\* the Redis TTL is the memory ttl
newRedisTTLFactorOne(f) == IF f = 0 THEN 1 ELSE f

\* cache.go:75-78  New: a RedisTTLFactor left unspecified is 4
newRedisTTLFactor(f) == IF f = 0 THEN DefaultRedisTTLFactor ELSE f

\* Another process of the namespace, built by New as well: whether it runs
\* (on), whether it has registered the type and with what ttl (cache.go:361-367),
\* the messages its subscription has not yet received, its memory tier, and
\* whether it has made its own write (wrote).
NoPeer == [on |-> FALSE, reg |-> FALSE, ttl |-> 0, chan |-> <<>>,
           mem |-> [k \in Keys |-> NoItem], wrote |-> FALSE]

\* a process with the type registered for a ttl of one second
Peer == [NoPeer EXCEPT !.on = TRUE, !.reg = TRUE, !.ttl = Second]

\* cache.go:440-450  the subscriber of watch: subscribed and receiving on
\* connection conn ("recv"), about to take a new connection and subscribe
\* again ("begin"), or returned ("off"); errsLeft is how many times Receive
\* may still answer with an error. open counts the connections taken from
\* the factory whose deferred Close (cache.go:444) has not run: a deferred
\* call runs when watch returns, not at `goto begin`
Subscribed(nErrs) ==
    [st |-> "recv", conn |-> 1, open |-> 1, errsLeft |-> nErrs, err |-> ""]

\* PUBLISH reaches this process through its subscription only
receive(ch, ar) == IF sub.st = "recv" THEN Append(ch, ar) ELSE ch

\* cache.go:510-518  PUBLISH hands the message to every subscription
deliver(p, ar) == IF p.on THEN [p EXCEPT !.chan = Append(@, ar)] ELSE p

\* mem_cache.go:174-186  the janitor between two sweeps, sweeps of them
\* made so far. In a sweep, visited holds the keys Range has handed to the
\* callback, k and v the key and Item it was handed last, ms the statistics
\* gathered per object type (count 0: no entry for the type) and gauges
\* what the last finished sweep reported; before and t0 remember the
\* entries and the clock at the start of the sweep.
ObjectTypes == {"t", "u"}
NoStats == [ty \in ObjectTypes |-> [count |-> 0, memUsage |-> 0]]
NoJanitor == [pc |-> "idle", visited |-> {}, k |-> "", v |-> NoItem, ms |-> NoStats,
              gauges |-> NoStats, before |-> <<>>, t0 |-> 0, sweeps |-> 0]

\* The state after New (cache.go:61-108) and what may have been stored
\* since, with the budget of the environment: how many calls the callers
\* make and how many Redis commands fail.
InitStore(nCalls, nFaults, updatePolicies, peers, nErrs, stores) ==
    /\ sub = Subscribed(nErrs)
    /\ jan = NoJanitor
    /\ now = 0
    /\ options \in [Disabled : {FALSE},
                    GetPolicy : {GetPolicyReturnExpired},
                    UpdatePolicy : {newUpdatePolicy(p) : p \in updatePolicies},
                    RedisTTLFactor : {newRedisTTLFactor(0)}]
    /\ types = [reg |-> FALSE, ttl |-> 0]
    /\ mem \in stores
    /\ redis = [k \in Keys |-> [present |-> FALSE, val |-> 0, size |-> 0, expireAt |-> 0, ttlSec |-> 0, killAt |-> 0]]
    /\ channel = <<>>
    /\ sfg = [get |-> [k \in Keys |-> NoFlight],
              reset |-> [k \in Keys |-> NoFlight],
              set |-> [k \in Keys |-> NoFlight]]
    /\ cpc = [c \in Slots |-> "idle"]
    /\ call = [c \in Slots |-> NoCall]
    /\ ctxDone = [c \in Slots |-> FALSE]
    /\ res = [c \in Slots |-> Nil]
    /\ out = [d \in Dsts |-> ZeroValue]
    /\ pc = [g \in Gor |-> "none"]
    /\ loc = [g \in Gor |-> NoLoc]
    /\ metrics = [c \in Slots |-> <<>>]
    /\ onError = 0
    /\ loads = 0
    /\ callsLeft = nCalls
    /\ faultsLeft = nFaults
    /\ hist = [dels |-> FALSE, sets |-> FALSE, stale |-> FALSE, wrote |-> FALSE,
               applied |-> FALSE, outcomes |-> <<>>, delMem |-> FALSE,
               lastWrite |-> NoObj, sweptAt |-> [k \in Keys |-> 0],
               getFailed |-> FALSE, dropped |-> FALSE]
    /\ peer \in peers

\* The state after New: nothing is stored
InitSubs(nCalls, nFaults, updatePolicies, peers, nErrs) ==
    InitStore(nCalls, nFaults, updatePolicies, peers, nErrs, {[k \in Keys |-> NoItem]})

InitPeers(nCalls, nFaults, updatePolicies, peers) ==
    InitSubs(nCalls, nFaults, updatePolicies, peers, 0)

\* New in a deployment of one process
InitWith(nCalls, nFaults, updatePolicies) ==
    InitPeers(nCalls, nFaults, updatePolicies, {NoPeer})

\* ------------------------------------------------------------ memory tier
\* mem_cache.go:136-153  memCache.get: the metric it records
memGetMetric(k) ==
    IF mem[k] = NoItem THEN "get_mem_miss"
    ELSE IF ~Expired(mem[k]) THEN "get_mem_hit" ELSE "get_mem_expired"

\* mem_cache.go:155-161  memCache.set
memSet(m, k, it) == [m EXCEPT ![k] = it]

\* mem_cache.go:163-169  memCache.delete
memDelete(m, k) == IF k \in DOMAIN m THEN [m EXCEPT ![k] = NoItem] ELSE m

\* ------------------------------------------------------------- Redis tier
NoEntry == [present |-> FALSE, val |-> 0, size |-> 0, expireAt |-> 0, ttlSec |-> 0, killAt |-> 0]

\* GET answers nil for a key that was never set, was deleted, or whose Redis
\* TTL has run out
rdsPresent(k) ==
    /\ redis[k].present
    /\ (redis[k].killAt = 0 \/ now < redis[k].killAt)

\* redisCache.set: the key's Redis TTL in seconds
redisTTL(ttl) == (Truncate(ttl) \div Second) * options.RedisTTLFactor

\* redis.go:126-130  SET when the ttl is 0, SETEX otherwise; Redis refuses a
\* SETEX whose expire time is not positive
setStringOK(ttlSec) == ttlSec >= 0

\* content of an object
Deref(ref) == IF ref.kind = "out" THEN out[ref.id] ELSE ref.id

\* redisCache.set: the envelope written for object o
rdsEntry(o, ttl) ==
    [present |-> TRUE, val |-> Deref(o), size |-> Len(marshal(Deref(o))),
     expireAt |-> newItem(o, ttl).expireAt, ttlSec |-> redisTTL(ttl),
     killAt |-> IF redisTTL(ttl) = 0 THEN 0 ELSE now + redisTTL(ttl) * Second]

\* redisCache.set: the Item it returns
rdsSetItem(o, ttl) == [newItem(o, ttl) EXCEPT !.size = Len(marshal(Deref(o)))]

\* the expiry of the envelope is not decoded
rdsGetItemNoExpiry(k, obj) == [obj |-> obj, size |-> redis[k].size, expireAt |-> 0]

\* redis_cache.go:61-63 and item.go:56-78: the envelope is decoded into the
\* object the caller of get passed, and the Item holds that very object
rdsGetItem(k, obj) == [obj |-> obj, size |-> redis[k].size, expireAt |-> redis[k].expireAt]

\* ------------------------------------------------------------ coordinator
\* cache.go:361-367
\* the Store that follows a Load which found no entry (seen is the Load's
\* answer) overwrites whatever has been stored since
checkType(seen, t, ttl) == IF seen THEN t ELSE [reg |-> TRUE, ttl |-> ttl]

\* cache.go:209-213
getPolicyOf(opt) == IF opt = 0 THEN options.GetPolicy ELSE opt

\* cache.go:137-140 and cache.go:278-281
updatePolicyOf(opt) == IF opt = 0 THEN options.UpdatePolicy ELSE opt

\* every change is published
publishesAlways(action, up) == TRUE

\* cache.go:492-496: a set is published only under UpdatePolicyBroadcast
publishes(action, up) == ~(up = UpdatePolicyNoBroadcast /\ action = cacheSet)

Participants(f) == IF f.leader = NoGor THEN {} ELSE {f.leader} \cup f.waiters

\* every caller runs the function itself
joinsFlightNever(f) == FALSE

\* singleflight.Group.Do: a call made while a flight for the same key is in
\* progress waits for that flight's result instead of running the function
joinsFlight(f) == f.leader # NoGor

\* the caller waits for the worker alone
selectsOnCtxNever(c) == FALSE

\* every operation gives up when its context is done
selectsOnCtxAlways(c) == TRUE

\* cache.go:122-127 and cache.go:188-193: the caller waits in a select on the
\* worker's done channel and on ctx.Done()
selectsOnCtx(c) == cpc[c] = "select" /\ pc[W(c)] # "send"

\* the destination the next GetObject call passes: a variable of its own
nextDst == MaxCalls - callsLeft + 1

SlotFree(c) ==
    /\ cpc[c] \in {"idle", "returned"}
    /\ pc[W(c)] = "none"
    /\ pc[A(c)] = "none"
    /\ callsLeft > 0

\* cache.go:171-187  GetObject: the caller starts the worker and selects;
\* what the worker does up to its types.Load (cache.go:362) touches nothing
\* shared and is taken with the start
GetObject(c, ttls, gpOpts) ==
    \E u \in UserKeys : \E k \in {namespacedKey(u)}, ttl \in ttls, gpOpt \in gpOpts :
        /\ SlotFree(c)
        /\ ~options.Disabled
        /\ callsLeft' = callsLeft - 1
        /\ call' = [call EXCEPT ![c] = [kind |-> "get", ukey |-> u, key |-> k, ttl |-> ttl,
                                        gp |-> getPolicyOf(gpOpt),
                                        dst |-> nextDst, ctxAt |-> ""]]
        /\ cpc' = [cpc EXCEPT ![c] = "select"]
        /\ ctxDone' = [ctxDone EXCEPT ![c] = FALSE]
        /\ metrics' = [metrics EXCEPT ![c] = <<>>]
        /\ pc' = [pc EXCEPT ![W(c)] = "gStart"]
        /\ loc' = [loc EXCEPT ![W(c)] = [NoLoc EXCEPT !.key = k, !.ttl = ttl,
                                         !.gp = getPolicyOf(gpOpt),
                                         !.up = updatePolicyOf(0),
                                         !.typeSeen = types.reg]]
        /\ UNCHANGED <<now, options, types, mem, redis, channel, sfg, res, out,
                       onError, loads, faultsLeft, hist, peer, sub, jan>>

\* The caller's context is cancelled or its deadline passes.  A caller parked
\* in the select of GetObject or SetObject (cache.go:122-127, 188-193) takes
\* the ctx.Done() case and returns the context's error, unless the worker is
\* already sending its result to it.  Delete and the disabled GetObject have
\* no select: they go on.
Cancel(c) ==
    /\ cpc[c] \in {"select", "dRds", "dPub", "disabledLoad"}
    /\ ~ctxDone[c]
    /\ ctxDone' = [ctxDone EXCEPT ![c] = TRUE]
    /\ call' = [call EXCEPT ![c].ctxAt = IF cpc[c] = "select" THEN pc[W(c)] ELSE cpc[c]]
    /\ IF selectsOnCtx(c)
       THEN /\ res' = [res EXCEPT ![c] = WithStack(CtxErr)]
            /\ cpc' = [cpc EXCEPT ![c] = "returned"]
       ELSE UNCHANGED <<res, cpc>>
    /\ UNCHANGED <<now, options, types, mem, redis, channel, sfg,
                   out, pc, loc, metrics, onError, loads, callsLeft, faultsLeft, hist,
                   peer, sub, jan>>

\* cache.go:123-124 and cache.go:189-190: the worker's result arrives
RecvDone(c) ==
    /\ cpc[c] = "select"
    /\ pc[W(c)] = "send"
    /\ res' = [res EXCEPT ![c] = loc[W(c)].err]
    /\ cpc' = [cpc EXCEPT ![c] = "returned"]
    /\ pc' = [pc EXCEPT ![W(c)] = "none"]
    /\ loc' = [loc EXCEPT ![W(c)] = NoLoc]
    /\ UNCHANGED <<now, options, types, mem, redis, channel, sfg, call, ctxDone,
                   out, metrics, onError, loads, callsLeft, faultsLeft, hist, peer, sub, jan>>

\* cache.go:197-203  getObject: the ttl check and the type registration,
\* whose types.Load was answered when the goroutine started
getObjectCheck(g) ==
    /\ pc[g] = "gStart"
    /\ IF IllegalTTL(loc[g].ttl)
       THEN /\ loc' = [loc EXCEPT ![g].err = WithStack(ErrIllegalTTL)]
            /\ pc' = [pc EXCEPT ![g] = "send"]
            /\ types' = types
       ELSE /\ types' = checkType(loc[g].typeSeen, types, loc[g].ttl)
            /\ pc' = [pc EXCEPT ![g] = "gMem"]
            /\ loc' = [loc EXCEPT ![g].typeSeen = FALSE]
    /\ UNCHANGED <<now, options, mem, redis, channel, sfg, cpc, call, ctxDone,
                   res, out, metrics, onError, loads, callsLeft, faultsLeft, hist, peer, sub, jan>>

\* cache.go:240-247  getObject: the memory tier is tried first
getObjectMem(g) ==
    /\ pc[g] = "gMem"
    /\ LET k == loc[g].key IN
        /\ metrics' = Emit(metrics, SlotOf(g), memGetMetric(k))
        /\ IF mem[k] # NoItem
           THEN /\ loc' = [loc EXCEPT ![g].it = mem[k], ![g].expired = Expired(mem[k]),
                                       ![g].staleVal = IF Expired(mem[k])
                                                       THEN Deref(mem[k].obj) ELSE @,
                                       ![g].busy = Expired(mem[k])
                                                   /\ sfg.reset[k].leader # NoGor]
                /\ pc' = [pc EXCEPT ![g] = "gDefer"]
                /\ hist' = [hist EXCEPT !.stale = @ \/ Expired(mem[k])]
           ELSE /\ loc' = loc
                /\ pc' = [pc EXCEPT ![g] = "gSf"]
                /\ hist' = hist
    /\ UNCHANGED <<now, options, types, mem, redis, channel, sfg, cpc, call,
                   ctxDone, res, out, onError, loads, callsLeft, faultsLeft, peer, sub, jan>>

\* cache.go:250  sfg.Do(namespacedKey+"_get"): lead a new flight or join the
\* one in progress
getObjectFlight(g) ==
    /\ pc[g] = "gSf"
    /\ LET k == loc[g].key
           f == sfg.get[k] IN
        IF ~joinsFlight(f)
        THEN /\ sfg' = [sfg EXCEPT !.get[k] = [leader |-> g, waiters |-> {}]]
             /\ pc' = [pc EXCEPT ![g] = "gRds"]
        ELSE /\ sfg' = [sfg EXCEPT !.get[k].waiters = @ \cup {g}]
             /\ pc' = [pc EXCEPT ![g] = "gWait"]
    /\ UNCHANGED <<now, options, types, mem, redis, channel, cpc, call, ctxDone,
                   res, out, loc, metrics, onError, loads, callsLeft, faultsLeft, hist, peer, sub, jan>>

\* the "_get" flight of g's key ends with (it, err): its leader and every
\* waiter return from sfg.Do with that result (cache.go:267-271)
getFlightDone(baseLoc, g, it, err) ==
    LET k == loc[g].key
        PG == Participants(sfg.get[k]) \cup {g} IN
    /\ sfg' = [sfg EXCEPT !.get[k] = NoFlight]
    /\ pc' = [q \in Gor |-> IF q \in PG THEN "gDefer" ELSE pc[q]]
    /\ loc' = [q \in Gor |->
                IF q \in PG
                THEN [baseLoc[q] EXCEPT !.it = IF err = Nil THEN it ELSE NoItem,
                                        !.err = err]
                ELSE baseLoc[q]]

\* a failed GET is taken for an absent key
getObjectRedisErrorIsMiss(g) ==
    /\ pc[g] = "gRds"
    /\ faultsLeft > 0
    /\ faultsLeft' = faultsLeft - 1
    /\ metrics' = Emit(metrics, SlotOf(g), "get_redis_miss")
    /\ pc' = [pc EXCEPT ![g] = "rEnter"]
    /\ loc' = [loc EXCEPT ![g].ret = "get"]
    /\ hist' = [hist EXCEPT !.getFailed = TRUE]
    /\ UNCHANGED <<now, options, types, mem, redis, channel, sfg, cpc, call,
                   ctxDone, res, out, onError, loads, callsLeft, peer, sub, jan>>

\* cache.go:251-264  the flight's leader reads Redis
getObjectRedis(g) ==
    /\ pc[g] = "gRds"
    /\ LET k == loc[g].key
           c == SlotOf(g)
           d == call[c].dst
           v == rdsGetItem(k, Ref("out", d))
           sw == /\ mem[k] = NoItem /\ hist.sweptAt[k] # 0
                 /\ redis[k].expireAt <= hist.sweptAt[k] IN
        \/ \* the GET fails
           /\ faultsLeft > 0
           /\ faultsLeft' = faultsLeft - 1
           /\ getFlightDone([q \in Gor |->
                               IF q \in Participants(sfg.get[k]) \cup {g}
                               THEN [loc[q] EXCEPT !.getFailed = TRUE]
                               ELSE loc[q]],
                            g, NoItem, WithStack(RedisErr))
           /\ hist' = [hist EXCEPT !.getFailed = TRUE]
           /\ UNCHANGED <<out, metrics>>
        \/ \* the key is absent: load
           /\ ~rdsPresent(k)
           /\ metrics' = Emit(metrics, c, "get_redis_miss")
           /\ pc' = [pc EXCEPT ![g] = "rEnter"]
           /\ loc' = [loc EXCEPT ![g].ret = "get"]
           /\ UNCHANGED <<out, sfg, faultsLeft, hist>>
        \/ \* present and expired: the leader marks its own read expired
           /\ rdsPresent(k)
           /\ Expired(v)
           /\ out' = [out EXCEPT ![d] = redis[k].val]
           /\ metrics' = Emit(metrics, c, "get_redis_expired")
           /\ getFlightDone([q \in Gor |->
                               IF q = g
                               THEN [loc[q] EXCEPT
                                       !.expired = TRUE,
                                       !.staleVal = redis[k].val,
                                       !.busy = sfg.reset[k].leader # NoGor,
                                       !.flightStale = redis[k].val,
                                       !.swept = sw]
                               ELSE IF q \in Participants(sfg.get[k])
                               THEN [loc[q] EXCEPT !.flightStale = redis[k].val]
                               ELSE loc[q]],
                            g, v, Nil)
           /\ hist' = [hist EXCEPT !.stale = TRUE]
           /\ UNCHANGED faultsLeft
        \/ \* present and fresh: written through to the memory tier next
           /\ rdsPresent(k)
           /\ ~Expired(v)
           /\ out' = [out EXCEPT ![d] = redis[k].val]
           /\ metrics' = Emit(metrics, c, "get_redis_hit")
           /\ pc' = [pc EXCEPT ![g] = "gMemSet"]
           /\ loc' = [loc EXCEPT ![g].it = v, ![g].hitVal = redis[k].val,
                                  ![g].swept = sw]
           /\ UNCHANGED <<sfg, faultsLeft, hist>>
    /\ UNCHANGED <<now, options, types, mem, redis, channel, cpc, call, ctxDone,
                   res, onError, loads, callsLeft, peer, sub, jan>>

\* the loader is called although Redis had a fresh entry
getObjectMemSetThenLoads(g) ==
    /\ pc[g] = "gMemSet"
    /\ mem' = memSet(mem, loc[g].key, loc[g].it)
    /\ metrics' = Emit(metrics, SlotOf(g), "set_mem")
    /\ pc' = [pc EXCEPT ![g] = "rEnter"]
    /\ loc' = [loc EXCEPT ![g].ret = "get"]
    /\ UNCHANGED <<now, options, types, redis, channel, sfg, cpc, call, ctxDone,
                   res, out, onError, loads, callsLeft, faultsLeft, hist, peer, sub, jan>>

\* the fresh Redis entry is returned but not kept in the memory tier
getObjectMemSetSkips(g) ==
    /\ pc[g] = "gMemSet"
    /\ metrics' = Emit(metrics, SlotOf(g), "set_mem")
    /\ getFlightDone(loc, g, loc[g].it, Nil)
    /\ UNCHANGED <<now, options, types, mem, redis, channel, cpc, call, ctxDone,
                   res, out, onError, loads, callsLeft, faultsLeft, hist, peer, sub, jan>>

\* cache.go:260-263  write-through of a fresh Redis entry
getObjectMemSet(g) ==
    /\ pc[g] = "gMemSet"
    /\ mem' = memSet(mem, loc[g].key, loc[g].it)
    /\ metrics' = Emit(metrics, SlotOf(g), "set_mem")
    /\ getFlightDone(loc, g, loc[g].it, Nil)
    /\ hist' = [hist EXCEPT !.wrote = TRUE]
    /\ UNCHANGED <<now, options, types, redis, channel, cpc, call, ctxDone,
                   res, out, onError, loads, callsLeft, faultsLeft, peer, sub, jan>>

\* cache.go:276  sfg.Do(namespacedKey+"_reset")
resetObjectFlight(g) ==
    /\ pc[g] = "rEnter"
    /\ LET k == loc[g].key
           f == sfg.reset[k] IN
        IF ~joinsFlight(f)
        THEN /\ sfg' = [sfg EXCEPT !.reset[k] = [leader |-> g, waiters |-> {}]]
             /\ pc' = [pc EXCEPT ![g] = "rLoad"]
        ELSE /\ sfg' = [sfg EXCEPT !.reset[k].waiters = @ \cup {g}]
             /\ pc' = [pc EXCEPT ![g] = "rWait"]
    /\ UNCHANGED <<now, options, types, mem, redis, channel, cpc, call, ctxDone,
                   res, out, loc, metrics, onError, loads, callsLeft, faultsLeft, hist, peer, sub, jan>>

\* the "_reset" flight of g's key ends with (it, err) (cache.go:324-327):
\* every participant returns from resetObject; the one that called it
\* inside a "_get" flight thereby ends that flight too (cache.go:265)
resetFlightDone(baseLoc, g, it, err) ==
    LET k == loc[g].key
        PR == Participants(sfg.reset[k]) \cup {g}
        inGet == {p \in PR : loc[p].ret = "get"}
        PG == IF inGet = {} THEN {} ELSE Participants(sfg.get[k]) IN
    /\ sfg' = [sfg EXCEPT !.reset[k] = NoFlight,
                          !.get[k] = IF inGet = {} THEN @ ELSE NoFlight]
    /\ pc' = [q \in Gor |->
                IF q \in PG THEN "gDefer"
                ELSE IF q \in PR
                     THEN (IF loc[q].ret = "defer" THEN "gCopy" ELSE "aEnd")
                     ELSE pc[q]]
    /\ loc' = [q \in Gor |->
                IF q \in (PG \cup PR)
                THEN [baseLoc[q] EXCEPT !.it = IF err = Nil THEN it ELSE NoItem,
                                        !.err = err]
                ELSE baseLoc[q]]

\* cache.go:299  the loader is invoked
resetObjectCall(g) ==
    /\ pc[g] = "rLoad"
    /\ loads' = loads + 1
    /\ pc' = [pc EXCEPT ![g] = "rLoading"]
    /\ UNCHANGED <<now, options, types, mem, redis, channel, sfg, cpc, call,
                   ctxDone, res, out, loc, metrics, onError, callsLeft, faultsLeft, hist, peer, sub, jan>>

\* every recovered panic becomes a new error of its text
loadErrorByText(outcome) ==
    IF outcome = "error" THEN LoaderErr
    ELSE IF outcome = "panicError" THEN ErrorsNew(PanicErr.msg)
    ELSE ErrorsNew(PanicText)

\* the loader's error gets a stack like the others
loadErrorWithStack(outcome) ==
    IF outcome = "error" THEN WithStack(LoaderErr)
    ELSE IF outcome = "panicError" THEN WithStack(PanicErr)
    ELSE ErrorsNew(PanicText)

\* cache.go:286-302  the error resetObject ends with when the loader does
\* not return a value: the loader's own error as it is, a recovered error
\* panic with a stack, any other recovered panic as a new error of its text
loadError(outcome) ==
    IF outcome = "error" THEN LoaderErr
    ELSE IF outcome = "panicError" THEN WithStack(PanicErr)
    ELSE ErrorsNew(PanicText)

\* cache.go:286-302  the loader returns a value, returns an error or panics;
\* a recovered panic is also reported to OnError
resetObjectLoaded(g, outcomes) ==
    /\ pc[g] = "rLoading"
    /\ \E outcome \in outcomes :
        /\ hist' = [hist EXCEPT !.outcomes = Append(@, outcome)]
        /\ IF outcome = "ok"
           THEN /\ loc' = [loc EXCEPT ![g].o = Ref("ld", loads)]
                /\ pc' = [pc EXCEPT ![g] = "rMem"]
                /\ UNCHANGED <<sfg, onError>>
           ELSE /\ resetFlightDone(loc, g, NoItem, loadError(outcome))
                /\ onError' = IF outcome = "error" THEN onError ELSE onError + 1
    /\ UNCHANGED <<now, options, types, mem, redis, channel, cpc, call, ctxDone,
                   res, out, metrics, loads, callsLeft, faultsLeft, peer, sub, jan>>

\* cache.go:304-305  the local memory tier is updated first
resetObjectMemSet(g) ==
    /\ pc[g] = "rMem"
    /\ mem' = memSet(mem, loc[g].key, newItem(loc[g].o, loc[g].ttl))
    /\ metrics' = Emit(metrics, SlotOf(g), "set_mem")
    /\ pc' = [pc EXCEPT ![g] = "rRds"]
    /\ hist' = [hist EXCEPT !.lastWrite = loc[g].o]
    /\ UNCHANGED <<now, options, types, redis, channel, sfg, cpc, call, ctxDone,
                   res, out, loc, onError, loads, callsLeft, faultsLeft, peer, sub, jan>>

\* cache.go:307-310  the Redis write
resetObjectRedisSet(g) ==
    /\ pc[g] = "rRds"
    /\ LET k == loc[g].key
           o == loc[g].o
           ttl == loc[g].ttl IN
        \/ /\ setStringOK(redisTTL(ttl))
           /\ redis' = [redis EXCEPT ![k] = rdsEntry(o, ttl)]
           /\ metrics' = Emit(metrics, SlotOf(g), "set_redis")
           /\ loc' = [loc EXCEPT ![g].it = rdsSetItem(o, ttl)]
           /\ pc' = [pc EXCEPT ![g] = "rPub"]
           /\ UNCHANGED <<sfg, faultsLeft>>
        \/ /\ ~setStringOK(redisTTL(ttl))
           /\ resetFlightDone(loc, g, NoItem, RedisErr)
           /\ UNCHANGED <<redis, metrics, faultsLeft>>
        \/ /\ faultsLeft > 0
           /\ faultsLeft' = faultsLeft - 1
           /\ resetFlightDone(loc, g, NoItem, RedisErr)
           /\ UNCHANGED <<redis, metrics>>
    /\ UNCHANGED <<now, options, types, mem, channel, cpc, call, ctxDone, res,
                   out, onError, loads, callsLeft, hist, peer, sub, jan>>

\* cache.go:498-518  the request is encoded and published; a failed PUBLISH
\* goes to OnError and nowhere else
actionRequest(action, k, o) ==
    [action |-> action, key |-> k,
     payload |-> IF action = cacheSet THEN marshal(Deref(o)) ELSE <<>>]

\* cache.go:312-322  notifyAll, after which the flight is over
resetObjectPublish(g) ==
    /\ pc[g] = "rPub"
    /\ LET k == loc[g].key IN
        \/ /\ ~publishes(cacheSet, loc[g].up)
           /\ UNCHANGED <<channel, onError, faultsLeft, peer>>
        \/ /\ publishes(cacheSet, loc[g].up)
           /\ channel' = receive(channel, actionRequest(cacheSet, k, loc[g].o))
           /\ peer' = deliver(peer, actionRequest(cacheSet, k, loc[g].o))
           /\ UNCHANGED <<onError, faultsLeft>>
        \/ /\ publishes(cacheSet, loc[g].up)
           /\ faultsLeft > 0
           /\ faultsLeft' = faultsLeft - 1
           /\ onError' = onError + 1
           /\ UNCHANGED <<channel, peer>>
    /\ metrics' = Emit(metrics, SlotOf(g), "load")
    /\ resetFlightDone(loc, g, loc[g].it, Nil)
    /\ UNCHANGED <<now, options, types, mem, redis, cpc, call, ctxDone, res,
                   out, loads, callsLeft, hist, sub, jan>>

\* an expired read is reloaded before returning whatever the policy
getObjectDeferAlwaysReloads(g) ==
    /\ pc[g] = "gDefer"
    /\ IF loc[g].expired
       THEN /\ pc' = [pc EXCEPT ![g] = "rEnter"]
            /\ loc' = [loc EXCEPT ![g].ret = "defer"]
       ELSE /\ pc' = [pc EXCEPT ![g] = "gCopy"]
            /\ loc' = loc
    /\ UNCHANGED <<now, options, types, mem, redis, channel, sfg, cpc, call,
                   ctxDone, res, out, metrics, onError, loads, callsLeft, faultsLeft, hist, peer, sub, jan>>

\* an expired read is never reloaded before returning
getObjectDeferNeverReloads(g) ==
    /\ pc[g] = "gDefer"
    /\ pc' = [pc EXCEPT ![g] = "gCopy"]
    /\ UNCHANGED <<now, options, types, mem, redis, channel, sfg, cpc, call,
                   ctxDone, res, out, loc, metrics, onError, loads, callsLeft,
                   faultsLeft, hist, peer, sub, jan>>

\* cache.go:216-219  the deferred function: under ReloadOnExpiry an expired
\* read is reloaded before anything is returned
getObjectDefer(g) ==
    /\ pc[g] = "gDefer"
    /\ IF loc[g].expired /\ loc[g].gp = GetPolicyReloadOnExpiry
       THEN /\ pc' = [pc EXCEPT ![g] = "rEnter"]
            /\ loc' = [loc EXCEPT ![g].ret = "defer"]
       ELSE /\ pc' = [pc EXCEPT ![g] = "gCopy"]
            /\ loc' = loc
    /\ UNCHANGED <<now, options, types, mem, redis, channel, sfg, cpc, call,
                   ctxDone, res, out, metrics, onError, loads, callsLeft, faultsLeft, hist, peer, sub, jan>>

\* cache.go:369-387  copy: the destination receives the content of src
copy(o, src, d) == [o EXCEPT ![d] = Deref(src)]

\* the copy is made but no asynchronous reload is ever started
getObjectCopyOnly(g) ==
    /\ pc[g] = "gCopy"
    /\ out' = IF loc[g].err = Nil
              THEN copy(out, loc[g].it.obj, call[SlotOf(g)].dst) ELSE out
    /\ pc' = [pc EXCEPT ![g] = "gRet"]
    /\ UNCHANGED <<now, options, types, mem, redis, channel, sfg, cpc, call,
                   ctxDone, res, loc, metrics, onError, loads, callsLeft,
                   faultsLeft, hist, peer, sub, jan>>

\* cache.go:220-237  deep copy into the destination, then the asynchronous
\* reload of an expired read is started
getObjectCopy(g) ==
    /\ pc[g] = "gCopy"
    /\ LET c == SlotOf(g)
           async == loc[g].expired /\ loc[g].gp # GetPolicyReloadOnExpiry IN
        /\ out' = IF loc[g].err = Nil THEN copy(out, loc[g].it.obj, call[c].dst) ELSE out
        /\ pc' = [pc EXCEPT ![g] = "gRet",
                            ![A(c)] = IF async THEN "rEnter" ELSE @]
        /\ loc' = [loc EXCEPT ![A(c)] = IF async
                                        THEN [loc[g] EXCEPT !.ret = "async", !.err = Nil,
                                                            !.it = NoItem, !.expired = FALSE]
                                        ELSE @]
    /\ UNCHANGED <<now, options, types, mem, redis, channel, sfg, cpc, call,
                   ctxDone, res, metrics, onError, loads, callsLeft, faultsLeft, hist, peer, sub, jan>>

\* cache.go:207  the deferred Observe of get_cache, then the result is sent
getObjectReturn(g) ==
    /\ pc[g] = "gRet"
    /\ metrics' = Observe(metrics, SlotOf(g), "get_cache", loc[g].err)
    /\ pc' = [pc EXCEPT ![g] = "send"]
    /\ UNCHANGED <<now, options, types, mem, redis, channel, sfg, cpc, call,
                   ctxDone, res, out, loc, onError, loads, callsLeft, faultsLeft, hist, peer, sub, jan>>

\* cache.go:227-236  the asynchronous reload ends
asyncLoadEnd(g) ==
    /\ pc[g] = "aEnd"
    /\ onError' = IF loc[g].err # Nil THEN onError + 1 ELSE onError
    /\ metrics' = Emit(metrics, SlotOf(g), "async_load")
    /\ pc' = [pc EXCEPT ![g] = "none"]
    /\ loc' = [loc EXCEPT ![g] = NoLoc]
    /\ UNCHANGED <<now, options, types, mem, redis, channel, sfg, cpc, call,
                   ctxDone, res, out, loads, callsLeft, faultsLeft, hist, peer, sub, jan>>

\* cache.go:175-181  GetObject on a disabled cache calls the loader itself
GetObjectDisabled(c, ttls) ==
    \E u \in UserKeys : \E k \in {namespacedKey(u)}, ttl \in ttls :
        /\ SlotFree(c)
        /\ options.Disabled
        /\ callsLeft' = callsLeft - 1
        /\ loads' = loads + 1
        /\ call' = [call EXCEPT ![c] = [kind |-> "getDisabled", ukey |-> u, key |-> k, ttl |-> ttl,
                                        gp |-> 0, dst |-> nextDst, ctxAt |-> ""]]
        /\ cpc' = [cpc EXCEPT ![c] = "disabledLoad"]
        /\ ctxDone' = [ctxDone EXCEPT ![c] = FALSE]
        /\ metrics' = [metrics EXCEPT ![c] = <<>>]
        /\ loc' = [loc EXCEPT ![W(c)] = [NoLoc EXCEPT !.key = k, !.ttl = ttl,
                                         !.o = Ref("ld", loads + 1)]]
        /\ UNCHANGED <<now, options, types, mem, redis, channel, sfg, res, out, pc,
                       onError, faultsLeft, hist, peer, sub, jan>>

\* the loader's result is stored in the memory tier although the cache is
\* disabled
GetObjectDisabledCaches(c, outcomes) ==
    /\ cpc[c] = "disabledLoad"
    /\ \E outcome \in outcomes :
        /\ outcome = "ok"
        /\ out' = copy(out, loc[W(c)].o, call[c].dst)
        /\ mem' = memSet(mem, call[c].key, newItem(loc[W(c)].o, call[c].ttl))
        /\ res' = [res EXCEPT ![c] = Nil]
        /\ cpc' = [cpc EXCEPT ![c] = "returned"]
    /\ UNCHANGED <<now, options, types, redis, channel, sfg, call, ctxDone,
                   pc, loc, metrics, onError, loads, callsLeft, faultsLeft, hist, peer, sub, jan>>

\* cache.go:176-180  the loader's result is copied out; a panic of the
\* loader is not recovered on this path
GetObjectDisabledLoaded(c, outcomes) ==
    /\ cpc[c] = "disabledLoad"
    /\ \E outcome \in outcomes :
        \/ /\ outcome = "ok"
           /\ out' = copy(out, loc[W(c)].o, call[c].dst)
           /\ res' = [res EXCEPT ![c] = Nil]
           /\ cpc' = [cpc EXCEPT ![c] = "returned"]
        \/ /\ outcome = "error"
           /\ res' = [res EXCEPT ![c] = LoaderErr]
           /\ cpc' = [cpc EXCEPT ![c] = "returned"]
           /\ out' = out
        \/ /\ outcome \in {"panicError", "panicString"}
           /\ cpc' = [cpc EXCEPT ![c] = "panicked"]
           /\ UNCHANGED <<res, out>>
    /\ UNCHANGED <<now, options, types, mem, redis, channel, sfg, call, ctxDone,
                   pc, loc, metrics, onError, loads, callsLeft, faultsLeft, hist, peer, sub, jan>>

\* cache.go:110-113
Disable ==
    /\ ~options.Disabled
    /\ options' = [options EXCEPT !.Disabled = TRUE]
    /\ UNCHANGED <<now, types, mem, redis, channel, sfg, cpc, call, ctxDone,
                   res, out, pc, loc, metrics, onError, loads, callsLeft,
                   faultsLeft, hist, peer, sub, jan>>

\* cache.go:115-121  SetObject: the caller starts the worker and selects;
\* what the worker does up to its types.Load (cache.go:362) touches nothing
\* shared and is taken with the start
SetObject(c, ttls) ==
    \E u \in UserKeys : \E k \in {namespacedKey(u)}, ttl \in ttls :
        /\ SlotFree(c)
        /\ callsLeft' = callsLeft - 1
        /\ call' = [call EXCEPT ![c] = [kind |-> "set", ukey |-> u, key |-> k, ttl |-> ttl, gp |-> 0, dst |-> 0, ctxAt |-> ""]]
        /\ cpc' = [cpc EXCEPT ![c] = "select"]
        /\ ctxDone' = [ctxDone EXCEPT ![c] = FALSE]
        /\ metrics' = [metrics EXCEPT ![c] = <<>>]
        /\ pc' = [pc EXCEPT ![W(c)] = "sStart"]
        /\ loc' = [loc EXCEPT ![W(c)] = [NoLoc EXCEPT !.key = k, !.ttl = ttl,
                                         !.up = updatePolicyOf(0),
                                         !.o = Ref("arg", 10 + c),
                                         !.typeSeen = types.reg]]
        /\ hist' = [hist EXCEPT !.sets = TRUE]
        /\ UNCHANGED <<now, options, types, mem, redis, channel, sfg, res, out,
                       onError, loads, faultsLeft, peer, sub, jan>>

\* cache.go:131-143  setObject: the ttl check and the type registration,
\* whose types.Load was answered when the goroutine started
setObjectCheck(g) ==
    /\ pc[g] = "sStart"
    /\ IF IllegalTTL(loc[g].ttl)
       THEN /\ loc' = [loc EXCEPT ![g].err = WithStack(ErrIllegalTTL)]
            /\ pc' = [pc EXCEPT ![g] = "send"]
            /\ types' = types
       ELSE /\ types' = checkType(loc[g].typeSeen, types, loc[g].ttl)
            /\ pc' = [pc EXCEPT ![g] = "sSf"]
            /\ loc' = [loc EXCEPT ![g].typeSeen = FALSE]
    /\ UNCHANGED <<now, options, mem, redis, channel, sfg, cpc, call, ctxDone,
                   res, out, metrics, onError, loads, callsLeft, faultsLeft, hist, peer, sub, jan>>

\* cache.go:148  sfg.Do(namespacedKey+"_set")
setObjectFlight(g) ==
    /\ pc[g] = "sSf"
    /\ LET k == loc[g].key
           f == sfg.set[k] IN
        IF ~joinsFlight(f)
        THEN /\ sfg' = [sfg EXCEPT !.set[k] = [leader |-> g, waiters |-> {}]]
             /\ pc' = [pc EXCEPT ![g] = "sMem"]
        ELSE /\ sfg' = [sfg EXCEPT !.set[k].waiters = @ \cup {g}]
             /\ pc' = [pc EXCEPT ![g] = "sWait"]
    /\ UNCHANGED <<now, options, types, mem, redis, channel, cpc, call, ctxDone,
                   res, out, loc, metrics, onError, loads, callsLeft, faultsLeft, hist, peer, sub, jan>>

\* the "_set" flight ends with err: every participant returns it (cache.go:168)
setFlightDone(g, err) ==
    LET k == loc[g].key
        PS == Participants(sfg.set[k]) \cup {g} IN
    /\ sfg' = [sfg EXCEPT !.set[k] = NoFlight]
    /\ pc' = [q \in Gor |-> IF q \in PS THEN "sRet" ELSE pc[q]]
    /\ loc' = [q \in Gor |-> IF q \in PS THEN [loc[q] EXCEPT !.err = err] ELSE loc[q]]

\* cache.go:149-150  the local memory tier is updated first
setObjectMemSet(g) ==
    /\ pc[g] = "sMem"
    /\ mem' = memSet(mem, loc[g].key, newItem(loc[g].o, loc[g].ttl))
    /\ metrics' = Emit(metrics, SlotOf(g), "set_mem")
    /\ pc' = [pc EXCEPT ![g] = "sRds"]
    /\ hist' = [hist EXCEPT !.lastWrite = loc[g].o]
    /\ UNCHANGED <<now, options, types, redis, channel, sfg, cpc, call, ctxDone,
                   res, out, loc, onError, loads, callsLeft, faultsLeft, peer, sub, jan>>

\* a failed Redis write takes the value out of the memory tier again
setObjectRedisSetRollsBack(g) ==
    /\ pc[g] = "sRds"
    /\ LET k == loc[g].key
           o == loc[g].o
           ttl == loc[g].ttl IN
        \/ /\ setStringOK(redisTTL(ttl))
           /\ redis' = [redis EXCEPT ![k] = rdsEntry(o, ttl)]
           /\ metrics' = Emit(metrics, SlotOf(g), "set_redis")
           /\ pc' = [pc EXCEPT ![g] = "sPub"]
           /\ UNCHANGED <<sfg, loc, faultsLeft, mem>>
        \/ /\ faultsLeft > 0
           /\ faultsLeft' = faultsLeft - 1
           /\ setFlightDone(g, WithStack(RedisErr))
           /\ mem' = memDelete(mem, k)
           /\ UNCHANGED <<redis, metrics>>
    /\ UNCHANGED <<now, options, types, channel, cpc, call, ctxDone, res,
                   out, onError, loads, callsLeft, hist, peer, sub, jan>>

\* cache.go:152-155  the Redis write
setObjectRedisSet(g) ==
    /\ pc[g] = "sRds"
    /\ LET k == loc[g].key
           o == loc[g].o
           ttl == loc[g].ttl IN
        \/ /\ setStringOK(redisTTL(ttl))
           /\ redis' = [redis EXCEPT ![k] = rdsEntry(o, ttl)]
           /\ metrics' = Emit(metrics, SlotOf(g), "set_redis")
           /\ pc' = [pc EXCEPT ![g] = "sPub"]
           /\ UNCHANGED <<sfg, loc, faultsLeft>>
        \/ /\ ~setStringOK(redisTTL(ttl))
           /\ setFlightDone(g, WithStack(RedisErr))
           /\ UNCHANGED <<redis, metrics, faultsLeft>>
        \/ /\ faultsLeft > 0
           /\ faultsLeft' = faultsLeft - 1
           /\ setFlightDone(g, WithStack(RedisErr))
           /\ UNCHANGED <<redis, metrics>>
    /\ UNCHANGED <<now, options, types, mem, channel, cpc, call, ctxDone, res,
                   out, onError, loads, callsLeft, hist, peer, sub, jan>>

\* cache.go:157-166  notifyAll, after which the flight is over
setObjectPublishReturnsError(g) ==
    /\ pc[g] = "sPub"
    /\ publishes(cacheSet, loc[g].up)
    /\ faultsLeft > 0
    /\ faultsLeft' = faultsLeft - 1
    /\ onError' = onError + 1
    /\ setFlightDone(g, WithStack(RedisErr))
    /\ UNCHANGED <<now, options, types, mem, redis, channel, cpc, call, ctxDone,
                   res, out, metrics, loads, callsLeft, hist, peer, sub, jan>>

setObjectPublish(g) ==
    /\ pc[g] = "sPub"
    /\ LET k == loc[g].key IN
        \/ /\ ~publishes(cacheSet, loc[g].up)
           /\ UNCHANGED <<channel, onError, faultsLeft, peer>>
        \/ /\ publishes(cacheSet, loc[g].up)
           /\ channel' = receive(channel, actionRequest(cacheSet, k, loc[g].o))
           /\ peer' = deliver(peer, actionRequest(cacheSet, k, loc[g].o))
           /\ UNCHANGED <<onError, faultsLeft>>
        \/ /\ publishes(cacheSet, loc[g].up)
           /\ faultsLeft > 0
           /\ faultsLeft' = faultsLeft - 1
           /\ onError' = onError + 1
           /\ UNCHANGED <<channel, peer>>
    /\ setFlightDone(g, Nil)
    /\ UNCHANGED <<now, options, types, mem, redis, cpc, call, ctxDone, res,
                   out, metrics, loads, callsLeft, hist, sub, jan>>

\* cache.go:146  the deferred Observe of set_cache, then the result is sent
setObjectReturn(g) ==
    /\ pc[g] = "sRet"
    /\ metrics' = Observe(metrics, SlotOf(g), "set_cache", loc[g].err)
    /\ pc' = [pc EXCEPT ![g] = "send"]
    /\ UNCHANGED <<now, options, types, mem, redis, channel, sfg, cpc, call,
                   ctxDone, res, out, loc, onError, loads, callsLeft, faultsLeft, hist, peer, sub, jan>>

\* cache.go:341-343  Delete runs in the caller's own goroutine
Delete(c) ==
    \E u \in UserKeys : \E k \in {namespacedKey(u)} :
        /\ SlotFree(c)
        /\ callsLeft' = callsLeft - 1
        /\ call' = [call EXCEPT ![c] = [kind |-> "delete", ukey |-> u, key |-> k, ttl |-> 0, gp |-> 0, dst |-> 0, ctxAt |-> ""]]
        /\ cpc' = [cpc EXCEPT ![c] = "dRds"]
        /\ ctxDone' = [ctxDone EXCEPT ![c] = FALSE]
        /\ metrics' = [metrics EXCEPT ![c] = <<>>]
        /\ hist' = [hist EXCEPT !.dels = TRUE]
        /\ UNCHANGED <<now, options, types, mem, redis, channel, sfg, res, out,
                       pc, loc, onError, loads, faultsLeft, peer, sub, jan>>

\* cache.go:345-349  the key is deleted from Redis
DeleteRedis(c) ==
    /\ cpc[c] = "dRds"
    /\ metrics' = Emit(metrics, c, "del_redis")
    /\ \/ /\ redis' = [redis EXCEPT ![call[c].key] = NoEntry]
          /\ cpc' = [cpc EXCEPT ![c] = "dPub"]
          /\ UNCHANGED <<res, faultsLeft>>
       \/ /\ faultsLeft > 0
          /\ faultsLeft' = faultsLeft - 1
          /\ res' = [res EXCEPT ![c] = WithStack(RedisErr)]
          /\ cpc' = [cpc EXCEPT ![c] = "returned"]
          /\ UNCHANGED redis
    /\ UNCHANGED <<now, options, types, mem, channel, sfg, call, ctxDone, out,
                   pc, loc, onError, loads, callsLeft, hist, peer, sub, jan>>

\* Delete removes the key from the local memory tier itself
DeletePublishAndLocal(c) ==
    /\ cpc[c] = "dPub"
    /\ channel' = receive(channel, actionRequest(cacheDelete, call[c].key, NoObj))
    /\ peer' = deliver(peer, actionRequest(cacheDelete, call[c].key, NoObj))
    /\ mem' = memDelete(mem, call[c].key)
    /\ metrics' = Emit(metrics, c, "del_cache")
    /\ res' = [res EXCEPT ![c] = Nil]
    /\ cpc' = [cpc EXCEPT ![c] = "returned"]
    /\ UNCHANGED <<now, options, types, redis, sfg, call, ctxDone, out,
                   pc, loc, loads, callsLeft, hist, onError, faultsLeft, sub, jan>>

\* the delete is published under the key the caller passed
DeletePublishUserKey(c) ==
    /\ cpc[c] = "dPub"
    /\ channel' = receive(channel, actionRequest(cacheDelete, call[c].ukey, NoObj))
    /\ peer' = deliver(peer, actionRequest(cacheDelete, call[c].ukey, NoObj))
    /\ metrics' = Emit(metrics, c, "del_cache")
    /\ res' = [res EXCEPT ![c] = Nil]
    /\ cpc' = [cpc EXCEPT ![c] = "returned"]
    /\ UNCHANGED <<now, options, types, mem, redis, sfg, call, ctxDone, out,
                   pc, loc, loads, callsLeft, hist, onError, faultsLeft, sub, jan>>

\* cache.go:351-357  the delete is published and Delete returns
DeletePublish(c) ==
    /\ cpc[c] = "dPub"
    /\ \/ /\ channel' = receive(channel, actionRequest(cacheDelete, call[c].key, NoObj))
          /\ peer' = deliver(peer, actionRequest(cacheDelete, call[c].key, NoObj))
          /\ UNCHANGED <<onError, faultsLeft>>
       \/ /\ faultsLeft > 0
          /\ faultsLeft' = faultsLeft - 1
          /\ onError' = onError + 1
          /\ UNCHANGED <<channel, peer>>
    /\ metrics' = Emit(metrics, c, "del_cache")
    /\ res' = [res EXCEPT ![c] = Nil]
    /\ cpc' = [cpc EXCEPT ![c] = "returned"]
    /\ UNCHANGED <<now, options, types, mem, redis, sfg, call, ctxDone, out,
                   pc, loc, loads, callsLeft, hist, sub, jan>>

\* cache.go:330-333
DeleteFromMem(c) ==
    \E u \in UserKeys : \E k \in {namespacedKey(u)} :
        /\ cpc[c] \in {"idle", "returned"}
        /\ mem[k] # NoItem
        /\ mem' = memDelete(mem, k)
        /\ hist' = [hist EXCEPT !.dels = TRUE]
        /\ UNCHANGED <<now, options, types, redis, channel, sfg, cpc, call,
                       ctxDone, res, out, pc, loc, metrics, onError, loads,
                       callsLeft, faultsLeft, peer, sub, jan>>

\* the subscriber keeps a local entry that expires later than the received one
watchKeepsFresher ==
    /\ sub.st = "recv"
    /\ channel # <<>>
    /\ LET ar == Head(channel)
           it == [newItem(Ref("dec", unmarshal(ar.payload)), types.ttl)
                      EXCEPT !.size = Len(ar.payload)] IN
        /\ channel' = Tail(channel)
        /\ IF ar.action = cacheSet
           THEN /\ IF types.reg /\ (mem[ar.key] = NoItem \/ mem[ar.key].expireAt < it.expireAt)
                   THEN mem' = memSet(mem, ar.key, it)
                   ELSE mem' = mem
                /\ hist' = [hist EXCEPT !.applied = TRUE,
                                        !.dropped = @ \/ ~types.reg]
           ELSE /\ mem' = memDelete(mem, ar.key)
                /\ hist' = [hist EXCEPT !.delMem = TRUE]
    /\ UNCHANGED <<now, options, types, redis, sfg, cpc, call, ctxDone, res,
                   out, pc, loc, metrics, onError, loads, callsLeft, faultsLeft, peer, sub, jan>>

\* the subscriber stops at a set message of a type it has not registered
watchStopsAtUnknownType ==
    /\ sub.st = "recv"
    /\ channel # <<>>
    /\ LET ar == Head(channel) IN
        /\ ar.action = cacheSet => types.reg
        /\ channel' = Tail(channel)
        /\ IF ar.action = cacheSet
           THEN /\ mem' = memSet(mem, ar.key,
                                 [newItem(Ref("dec", unmarshal(ar.payload)), types.ttl)
                                      EXCEPT !.size = Len(ar.payload)])
                /\ hist' = [hist EXCEPT !.applied = TRUE]
           ELSE /\ mem' = memDelete(mem, ar.key)
                /\ hist' = [hist EXCEPT !.delMem = TRUE]
    /\ UNCHANGED <<now, options, types, redis, sfg, cpc, call, ctxDone, res,
                   out, pc, loc, metrics, onError, loads, callsLeft, faultsLeft, peer, sub, jan>>

\* cache.go:452-479  watch: the subscriber takes the next message
watch ==
    /\ sub.st = "recv"
    /\ channel # <<>>
    /\ LET ar == Head(channel) IN
        /\ channel' = Tail(channel)
        /\ IF ar.action = cacheSet
           THEN /\ IF types.reg
                   THEN mem' = memSet(mem, ar.key,
                                      [newItem(Ref("dec", unmarshal(ar.payload)), types.ttl)
                                           EXCEPT !.size = Len(ar.payload)])
                   ELSE mem' = mem
                /\ hist' = [hist EXCEPT !.applied = TRUE,
                                        !.dropped = @ \/ ~types.reg]
           ELSE /\ mem' = memDelete(mem, ar.key)
                /\ hist' = [hist EXCEPT !.delMem = TRUE]
    /\ UNCHANGED <<now, options, types, redis, sfg, cpc, call, ctxDone, res,
                   out, pc, loc, metrics, onError, loads, callsLeft, faultsLeft, peer, sub, jan>>

\* the texts of the errors Receive answers with
RecvErrors == {"use of closed network connection", "connect: connection refused",
               "i/o timeout"}

\* cache.go:483  the connection is taken for invalid
connInvalid(text) ==
    text \in {"use of closed network connection", "connect: connection refused"}

\* cache.go:480-487  watch: Receive answers with an error, which goes to
\* OnError; a connection taken for invalid is given up, with the messages on
\* their way over it, and the subscriber starts again; otherwise it receives
\* again on the same connection
watchError ==
    /\ sub.st = "recv"
    /\ sub.errsLeft > 0
    /\ \E text \in RecvErrors :
        /\ sub' = [sub EXCEPT !.errsLeft = @ - 1, !.err = text,
                              !.st = IF connInvalid(text) THEN "begin" ELSE "recv"]
        /\ channel' = IF connInvalid(text) THEN <<>> ELSE channel
    /\ onError' = onError + 1
    /\ UNCHANGED <<now, options, types, mem, redis, sfg, cpc, call, ctxDone, res,
                   out, pc, loc, metrics, loads, callsLeft, faultsLeft, hist, peer, jan>>

\* cache.go:442-450  watch: a new connection is taken from the factory and
\* subscribed to the action channel, the connections taken before staying
\* open; when SUBSCRIBE fails the error goes to OnError and watch returns,
\* which runs every deferred Close
watchBegin ==
    /\ sub.st = "begin"
    /\ \/ /\ sub' = [sub EXCEPT !.st = "recv", !.conn = @ + 1, !.open = @ + 1]
          /\ UNCHANGED <<onError, faultsLeft>>
       \/ /\ faultsLeft > 0
          /\ faultsLeft' = faultsLeft - 1
          /\ onError' = onError + 1
          /\ sub' = [sub EXCEPT !.st = "off", !.open = 0]
    /\ UNCHANGED <<now, options, types, mem, redis, channel, sfg, cpc, call,
                   ctxDone, res, out, pc, loc, metrics, loads, callsLeft, hist, peer, jan>>

\* the other process drops the set messages it receives
peerWatchIgnoresSet ==
    /\ peer.on
    /\ peer.chan # <<>>
    /\ LET ar == Head(peer.chan) IN
        peer' = [peer EXCEPT
                    !.chan = Tail(@),
                    !.mem = IF ar.action = cacheSet THEN @ ELSE memDelete(@, ar.key)]
    /\ UNCHANGED <<now, options, types, mem, redis, channel, sfg, cpc, call,
                   ctxDone, res, out, pc, loc, metrics, onError, loads, callsLeft,
                   faultsLeft, hist, sub, jan>>

\* cache.go:452-479  watch in the other process: its subscription hands over
\* the next message; a set is decoded into its own memory tier when it has
\* registered the type, a delete removes the key
peerWatch ==
    /\ peer.on
    /\ peer.chan # <<>>
    /\ LET ar == Head(peer.chan) IN
        peer' = [peer EXCEPT
                    !.chan = Tail(@),
                    !.mem = IF ar.action = cacheSet
                            THEN IF peer.reg
                                 THEN memSet(@, ar.key,
                                             [newItem(Ref("dec", unmarshal(ar.payload)), peer.ttl)
                                                  EXCEPT !.size = Len(ar.payload)])
                                 ELSE @
                            ELSE memDelete(@, ar.key)]
    /\ UNCHANGED <<now, options, types, mem, redis, channel, sfg, cpc, call,
                   ctxDone, res, out, pc, loc, metrics, onError, loads, callsLeft,
                   faultsLeft, hist, sub, jan>>

\* cache.go:131-169  setObject run by the other process, with the options
\* this process has: its memory tier is set, Redis is written, and under
\* UpdatePolicyBroadcast the set is published to every subscription
peerSetObject ==
    /\ peer.on
    /\ ~peer.wrote
    /\ \E k \in Keys :
        LET o == Ref("arg", 10 + NumSlots + 1)
            ar == actionRequest(cacheSet, k, o)
            p == [peer EXCEPT !.wrote = TRUE,
                              !.mem = memSet(@, k, newItem(o, peer.ttl))] IN
        /\ redis' = [redis EXCEPT ![k] = rdsEntry(o, peer.ttl)]
        /\ IF publishes(cacheSet, options.UpdatePolicy)
           THEN /\ channel' = receive(channel, ar)
                /\ peer' = deliver(p, ar)
           ELSE /\ channel' = channel
                /\ peer' = p
    /\ UNCHANGED <<now, options, types, mem, sfg, cpc, call, ctxDone, res, out,
                   pc, loc, metrics, onError, loads, callsLeft, faultsLeft, hist, sub, jan>>

\* mem_cache.go:189-219  the janitor's sweep removes the expired items
DeleteExpired ==
    /\ \E k \in Keys : mem[k] # NoItem /\ Expired(mem[k])
    /\ mem' = [k \in Keys |-> IF mem[k] # NoItem /\ Expired(mem[k]) THEN NoItem ELSE mem[k]]
    /\ hist' = [hist EXCEPT !.sweptAt = [k \in Keys |->
                                IF mem[k] # NoItem /\ Expired(mem[k])
                                THEN mem[k].expireAt ELSE @[k]]]
    /\ UNCHANGED <<now, options, types, redis, channel, sfg, cpc, call, ctxDone,
                   res, out, pc, loc, metrics, onError, loads, callsLeft, faultsLeft, peer, sub, jan>>

\* metrics.go:22-35, mem_cache.go:195  the object type of a key: what
\* precedes the separator "#" once the namespace is trimmed
objectType(k) == IF k \in {namespacedKey("t#1"), namespacedKey("t#2")} THEN "t" ELSE "u"

\* how many sweeps the janitor makes
MaxSweeps == 1

\* mem_cache.go:174-186, 189-191  runJanitor: the ticker fires and
\* DeleteExpired starts with empty statistics
janitorStart ==
    /\ jan.pc = "idle"
    /\ jan.sweeps < MaxSweeps
    /\ jan' = [jan EXCEPT !.pc = "range", !.visited = {}, !.ms = NoStats,
                          !.before = mem, !.t0 = now, !.sweeps = @ + 1]
    /\ UNCHANGED <<now, options, types, mem, redis, channel, sfg, cpc, call, ctxDone,
                   res, out, pc, loc, metrics, onError, loads, callsLeft, faultsLeft,
                   hist, peer, sub>>

\* mem_cache.go:191-207  Range hands an entry it has not handed yet to the
\* callback, which adds it to the statistics of its object type
janitorRange ==
    /\ jan.pc = "range"
    /\ \E k \in DOMAIN mem \ jan.visited :
        /\ mem[k] # NoItem
        /\ LET ty == objectType(k) IN
            jan' = [jan EXCEPT !.pc = "visit", !.visited = @ \cup {k},
                               !.k = k, !.v = mem[k],
                               !.ms[ty] = [count |-> @.count + 1,
                                           memUsage |-> @.memUsage + mem[k].size]]
    /\ UNCHANGED <<now, options, types, mem, redis, channel, sfg, cpc, call, ctxDone,
                   res, out, pc, loc, metrics, onError, loads, callsLeft, faultsLeft,
                   hist, peer, sub>>

\* every entry the callback is handed is deleted
janitorDeleteVisited ==
    /\ jan.pc = "visit"
    /\ mem' = memDelete(mem, jan.k)
    /\ jan' = [jan EXCEPT !.pc = "range"]
    /\ UNCHANGED <<now, options, types, redis, channel, sfg, cpc, call, ctxDone,
                   res, out, pc, loc, metrics, onError, loads, callsLeft, faultsLeft,
                   hist, peer, sub>>

\* mem_cache.go:209-213  the callback deletes the key when the Item it was
\* handed has expired, whatever the key holds by now
janitorDelete ==
    /\ jan.pc = "visit"
    /\ mem' = IF Expired(jan.v) THEN memDelete(mem, jan.k) ELSE mem
    /\ jan' = [jan EXCEPT !.pc = "range"]
    /\ UNCHANGED <<now, options, types, redis, channel, sfg, cpc, call, ctxDone,
                   res, out, pc, loc, metrics, onError, loads, callsLeft, faultsLeft,
                   hist, peer, sub>>

\* mem_cache.go:191, 215-218  Range has handed out every entry that was
\* there when the sweep started and is still there (one stored since may or
\* may not have been handed out); the statistics are reported as gauges
janitorSet ==
    /\ jan.pc = "range"
    /\ \A k \in DOMAIN mem \ jan.visited : jan.before[k] = NoItem \/ mem[k] = NoItem
    /\ jan' = [jan EXCEPT !.pc = "idle", !.gauges = jan.ms]
    /\ UNCHANGED <<now, options, types, mem, redis, channel, sfg, cpc, call, ctxDone,
                   res, out, pc, loc, metrics, onError, loads, callsLeft, faultsLeft,
                   hist, peer, sub>>

\* a second passes
Tick ==
    /\ now < MaxTime * Second
    /\ now' = now + Second
    /\ UNCHANGED <<options, types, mem, redis, channel, sfg, cpc, call, ctxDone,
                   res, out, pc, loc, metrics, onError, loads, callsLeft, faultsLeft, hist, peer, sub, jan>>

\* the caller changes the object a successful GetObject filled in
Mutate(c) ==
    /\ cpc[c] = "returned"
    /\ call[c].kind = "get"
    /\ res[c] = Nil
    /\ out[call[c].dst] # Dirty
    /\ out' = [out EXCEPT ![call[c].dst] = Dirty]
    /\ UNCHANGED <<now, options, types, mem, redis, channel, sfg, cpc, call,
                   ctxDone, res, pc, loc, metrics, onError, loads, callsLeft, faultsLeft, hist, peer, sub, jan>>

\* ---------------------------------------------------------- specifications
\* the steps of the goroutine serving a GetObject call, which the
\* asynchronous reload shares from resetObject on
getWorker(g, outcomes) ==
    \/ getObjectCheck(g)
    \/ getObjectMem(g)
    \/ getObjectFlight(g)
    \/ getObjectRedis(g)
    \/ getObjectMemSet(g)
    \/ resetObjectFlight(g)
    \/ resetObjectCall(g)
    \/ resetObjectLoaded(g, outcomes)
    \/ resetObjectMemSet(g)
    \/ resetObjectRedisSet(g)
    \/ resetObjectPublish(g)
    \/ getObjectDefer(g)
    \/ getObjectCopy(g)
    \/ getObjectReturn(g)

\* the steps of the goroutine serving a SetObject call
setWorker(g) ==
    \/ setObjectCheck(g)
    \/ setObjectFlight(g)
    \/ setObjectMemSet(g)
    \/ setObjectRedisSet(g)
    \/ setObjectPublish(g)
    \/ setObjectReturn(g)

\* Reads of one key over time: concurrent GetObject calls with a ttl of one
\* second under both get policies, a loader that may fail or panic, the
\* subscriber, and the clock.
Init == InitWith(MaxCalls, 0, {UpdatePolicyBroadcast, UpdatePolicyNoBroadcast})

Next ==
    \/ \E c \in Slots : GetObject(c, {Second}, CallGetPolicies)
    \/ \E c \in Slots : RecvDone(c)
    \/ \E g \in Gor : getWorker(g, LoaderOutcomes)
    \/ \E g \in Gor : asyncLoadEnd(g)
    \/ watch
    \/ Tick

Spec == Init /\ [][Next]_vars

\* The ttl check: GetObject and SetObject with whole, fractional, zero and
\* negative ttls, on a cache that may be disabled on the way.
InitTTL == InitWith(MaxCalls, 0, {UpdatePolicyNoBroadcast})

NextTTL ==
    \/ \E c \in Slots : GetObject(c, CallTTLs, {0})
    \/ \E c \in Slots : SetObject(c, CallTTLs)
    \/ \E c \in Slots : RecvDone(c)
    \/ Disable
    \/ \E c \in Slots : GetObjectDisabled(c, CallTTLs)
    \/ \E c \in Slots : GetObjectDisabledLoaded(c, {"ok"})
    \/ \E g \in Gor : getWorker(g, {"ok"})
    \/ \E g \in Gor : asyncLoadEnd(g)
    \/ \E g \in Gor : setWorker(g)
    \/ Tick

SpecTTL == InitTTL /\ [][NextTTL]_vars

\* Cancellation: GetObject, SetObject and Delete calls whose context may be
\* cancelled at any moment while they are in progress, with Redis commands
\* that may fail.
InitCtx == InitWith(MaxCalls, MaxFaults, {UpdatePolicyNoBroadcast})

NextCtx ==
    \/ \E c \in Slots : GetObject(c, {Second}, {0})
    \/ \E c \in Slots : SetObject(c, {Second})
    \/ \E c \in Slots : Delete(c)
    \/ \E c \in Slots : DeleteRedis(c)
    \/ \E c \in Slots : DeletePublish(c)
    \/ \E c \in Slots : Cancel(c)
    \/ \E c \in Slots : RecvDone(c)
    \/ \E g \in Gor : getWorker(g, {"ok"})
    \/ \E g \in Gor : setWorker(g)
    \/ watch

SpecCtx == InitCtx /\ [][NextCtx]_vars

\* Cancellation under the Go scheduler: a goroutine that can take a step
\* takes it in the end, and a caller waiting in its select takes the result
\* its worker is sending.
SpecCtxLive ==
    /\ SpecCtx
    /\ \A g \in Gor : WF_vars(getWorker(g, {"ok"}) \/ setWorker(g))
    /\ \A c \in Slots : WF_vars(RecvDone(c))

\* An enabled cache that is filled, then disabled, and the calls made after
\* that, whose loader returns a value, returns an error or panics.
InitDisabled == InitWith(MaxCalls, 0, {UpdatePolicyBroadcast, UpdatePolicyNoBroadcast})

NextDisabled ==
    \/ \E c \in Slots : GetObject(c, {Second}, {0})
    \/ \E c \in Slots : RecvDone(c)
    \/ \E g \in Gor : getWorker(g, {"ok"})
    \/ watch
    \/ Disable
    \/ \E c \in Slots : GetObjectDisabled(c, {Second})
    \/ \E c \in Slots : GetObjectDisabledLoaded(c, LoaderOutcomes)

SpecDisabled == InitDisabled /\ [][NextDisabled]_vars

\* Writes of both kinds, loads and SetObject, with and without an expiry,
\* under either update policy, next to Delete, with Redis commands that may
\* fail and the subscriber applying what was published.
WriteTTLs == {0, Second, 2 * Second}

InitWrite == InitWith(MaxCalls, MaxFaults, {0, UpdatePolicyBroadcast})

NextWrite ==
    \/ \E c \in Slots : GetObject(c, WriteTTLs, {0})
    \/ \E c \in Slots : SetObject(c, WriteTTLs)
    \/ \E c \in Slots : Delete(c)
    \/ \E c \in Slots : DeleteRedis(c)
    \/ \E c \in Slots : DeletePublish(c)
    \/ \E c \in Slots : RecvDone(c)
    \/ \E g \in Gor : getWorker(g, {"ok"})
    \/ \E g \in Gor : setWorker(g)
    \/ watch

SpecWrite == InitWrite /\ [][NextWrite]_vars

\* A process whose callers read and write a key that another process of the
\* namespace writes as well.
InitOwn ==
    InitPeers(MaxCalls, 0, {UpdatePolicyBroadcast, UpdatePolicyNoBroadcast}, {Peer})

NextOwn ==
    \/ \E c \in Slots : GetObject(c, {Second}, {0})
    \/ \E c \in Slots : SetObject(c, {Second})
    \/ \E c \in Slots : RecvDone(c)
    \/ \E g \in Gor : getWorker(g, {"ok"})
    \/ \E g \in Gor : setWorker(g)
    \/ watch
    \/ peerSetObject

SpecOwn == InitOwn /\ [][NextOwn]_vars

\* Two processes of one namespace: the callers of this one load, write and
\* delete, and both subscribers apply what is published.  The watch goroutine
\* of a process loops on Receive for as long as the process runs
\* (cache.go:452-453), so a message in its subscription is eventually taken.
InitPeer ==
    InitPeers(MaxCalls, 0, {UpdatePolicyBroadcast, UpdatePolicyNoBroadcast}, {Peer})

NextPeer ==
    \/ \E c \in Slots : GetObject(c, {Second}, {0})
    \/ \E c \in Slots : SetObject(c, {Second})
    \/ \E c \in Slots : Delete(c)
    \/ \E c \in Slots : DeleteRedis(c)
    \/ \E c \in Slots : DeletePublish(c)
    \/ \E c \in Slots : RecvDone(c)
    \/ \E g \in Gor : getWorker(g, {"ok"})
    \/ \E g \in Gor : setWorker(g)
    \/ watch
    \/ peerWatch

SpecPeer == InitPeer /\ [][NextPeer]_vars /\ WF_vars(watch) /\ WF_vars(peerWatch)

\* Reloads of every origin: the calls find the key absent, or find an entry
\* that another process wrote and published and that has expired since,
\* under either get policy.
InitReload == InitPeers(MaxCalls, 0, {UpdatePolicyBroadcast}, {Peer})

NextReload ==
    \/ \E c \in Slots : GetObject(c, {Second}, CallGetPolicies)
    \/ \E c \in Slots : RecvDone(c)
    \/ \E g \in Gor : getWorker(g, {"ok"})
    \/ \E g \in Gor : asyncLoadEnd(g)
    \/ peerSetObject
    \/ watch
    \/ Tick

SpecReload == InitReload /\ [][NextReload]_vars

\* One process with memory ttl 1s and the default factor 4: entries expire
\* and the janitor's sweep drops them from the memory tier while the Redis
\* key lives on.
InitSweep == InitWith(MaxCalls, 0, {0})

NextSweep ==
    \/ \E c \in Slots : GetObject(c, {Second}, {0})
    \/ \E c \in Slots : RecvDone(c)
    \/ \E g \in Gor : getWorker(g, {"ok"})
    \/ \E g \in Gor : asyncLoadEnd(g)
    \/ DeleteExpired
    \/ Tick

SpecSweep == InitSweep /\ [][NextSweep]_vars

\* The subscriber of a process that has registered no type yet: another
\* process publishes a set before the first call, and the sets and deletes
\* of the process's own calls follow. The subscriber's goroutine is always
\* scheduled in the end.
InitWatch == InitPeers(MaxCalls, 0, {UpdatePolicyBroadcast}, {Peer})

NextWatch ==
    \/ \E c \in Slots : GetObject(c, {Second}, {0})
    \/ \E c \in Slots : SetObject(c, {Second})
    \/ \E c \in Slots : Delete(c)
    \/ \E c \in Slots : DeleteRedis(c)
    \/ \E c \in Slots : DeletePublish(c)
    \/ \E c \in Slots : RecvDone(c)
    \/ \E g \in Gor : getWorker(g, {"ok"})
    \/ \E g \in Gor : setWorker(g)
    \/ peerSetObject
    \/ watch

SpecWatch == InitWatch /\ [][NextWatch]_vars /\ WF_vars(watch)

\* Calls that pass different ttls for the one type, under
\* UpdatePolicyBroadcast, while time passes.
TypeTTLs == {Second, 2 * Second}

InitTypes == InitWith(MaxCalls, 0, {UpdatePolicyBroadcast})

NextTypes ==
    \/ \E c \in Slots : GetObject(c, TypeTTLs, {0})
    \/ \E c \in Slots : SetObject(c, TypeTTLs)
    \/ \E c \in Slots : RecvDone(c)
    \/ \E g \in Gor : getWorker(g, {"ok"})
    \/ \E g \in Gor : setWorker(g)
    \/ \E g \in Gor : asyncLoadEnd(g)
    \/ watch
    \/ Tick

SpecTypes == InitTypes /\ [][NextTypes]_vars

\* The subscriber while Receive may answer with an error and Redis commands
\* may fail: SetObject and Delete calls publish under UpdatePolicyBroadcast.
\* The subscriber's goroutine is always scheduled in the end.
MaxRecvErrors == 1

InitSub == InitSubs(MaxCalls, MaxFaults, {UpdatePolicyBroadcast}, {NoPeer}, MaxRecvErrors)

NextSub ==
    \/ \E c \in Slots : SetObject(c, {Second})
    \/ \E c \in Slots : Delete(c)
    \/ \E c \in Slots : DeleteRedis(c)
    \/ \E c \in Slots : DeletePublish(c)
    \/ \E c \in Slots : RecvDone(c)
    \/ \E g \in Gor : setWorker(g)
    \/ watch
    \/ watchError
    \/ watchBegin

SpecSub == InitSub /\ [][NextSub]_vars /\ WF_vars(watch) /\ WF_vars(watchBegin)

\* The janitor alone with a memory tier that calls and broadcasts have
\* filled before: up to three entries of two object types, stored locally
\* (Size 0) or by the subscriber (Size of the payload), that never expire
\* or expire after one or two seconds. Nothing else touches the memory
\* tier while the clock runs and the janitor sweeps.
JanitorKeys == {namespacedKey(key) : key \in {"t#1", "t#2", "u#1"}}
JanitorSizes == {0, Len(marshal(1))}
JanitorItems ==
    {[obj |-> Ref("arg", 1), size |-> sz, expireAt |-> e] :
        sz \in JanitorSizes, e \in {0, Second, 2 * Second}}

InitJanitor ==
    InitStore(0, 0, {UpdatePolicyNoBroadcast}, {NoPeer}, 0,
              [JanitorKeys -> JanitorItems \cup {NoItem}])

NextJanitor ==
    \/ janitorStart
    \/ janitorRange
    \/ janitorDelete
    \/ janitorSet
    \/ Tick

SpecJanitor == InitJanitor /\ [][NextJanitor]_vars

\* The janitor beside SetObject calls on the key it sweeps, while the clock
\* runs.
InitJanitorSet == InitWith(MaxCalls, 0, {UpdatePolicyNoBroadcast})

NextJanitorSet ==
    \/ \E c \in Slots : SetObject(c, {Second})
    \/ \E c \in Slots : RecvDone(c)
    \/ \E g \in Gor : setWorker(g)
    \/ janitorStart
    \/ janitorRange
    \/ janitorDelete
    \/ janitorSet
    \/ Tick

SpecJanitorSet == InitJanitorSet /\ [][NextJanitorSet]_vars





\* ------------------------------------------------------------- properties
Recorded(c, m) == \E i \in 1..Len(metrics[c]) : metrics[c][i] = m
Returned(c, kind) == cpc[c] = "returned" /\ call[c].kind = kind
Got(c) == out[call[c].dst]
LoaderAlways(outcomes) ==
    \A i \in 1..Len(hist.outcomes) : hist.outcomes[i] \in outcomes

\* C1: GetObject calls for a key that starts absent from both tiers, made
\* while nothing expires and the loader succeeds, run the loader at most
\* once, and every one of them returns nil with the value of that single run.
C1_LoaderRunsOnce ==
    (~hist.stale /\ LoaderAlways({"ok"}))
    => /\ loads <= 1
       /\ \A c \in Slots :
            Returned(c, "get") => loads = 1 /\ res[c] = Nil /\ Got(c) = 1

\* two concurrent calls both missed the memory tier, one of them never read
\* Redis because it shared the other's flight, and both hold the one value
C1_Witness ==
    /\ loads = 1
    /\ \A c \in Slots :
        Returned(c, "get") /\ res[c] = Nil /\ Got(c) = 1 /\ Recorded(c, "get_mem_miss")
    /\ \E c \in Slots : ~Recorded(c, "get_redis_miss") /\ ~Recorded(c, "get_redis_hit")

FractionalTTL(ttl) == ttl % Second # 0

\* C2: every GetObject or SetObject call whose ttl is not a whole number of
\* seconds returns ErrIllegalTTL.
C2_FractionalRejected ==
    \A c \in Slots :
        (cpc[c] = "returned" /\ call[c].kind \in {"get", "getDisabled", "set"}
            /\ FractionalTTL(call[c].ttl))
        => ErrorsIs(res[c], ErrIllegalTTL)

\* C3 as stated: every GetObject or SetObject call with a ttl of zero or less
\* fails with ErrIllegalTTL.
C3_NonPositiveRejected ==
    \A c \in Slots :
        (cpc[c] = "returned" /\ call[c].kind \in {"get", "set"} /\ call[c].ttl <= 0)
        => ErrorsIs(res[c], ErrIllegalTTL)

\* C3 amended: SetObject, and GetObject on an enabled cache, fail with
\* ErrIllegalTTL exactly when the ttl is positive and not a whole number of
\* seconds; a ttl of zero or less is never refused by the ttl check.
C3_RejectedIffPositiveFraction ==
    \A c \in Slots :
        (cpc[c] = "returned" /\ call[c].kind \in {"get", "set"})
        => (ErrorsIs(res[c], ErrIllegalTTL)
                <=> (call[c].ttl > 0 /\ FractionalTTL(call[c].ttl)))

\* a GetObject with ttl 0 succeeded, and its value is in the memory tier
\* without an expiry
C3_Witness ==
    \E c \in Slots :
        /\ Returned(c, "get") /\ call[c].ttl = 0 /\ res[c] = Nil /\ Got(c) = 1
        /\ mem[call[c].key] # NoItem /\ mem[call[c].key].expireAt = 0

\* C4: the object of the Item the memory tier holds is never the destination
\* of a GetObject call, so that a caller changing what it received changes
\* nothing in the memory tier.
C4_StoredObjectNotDestination ==
    \A k \in Keys : mem[k] # NoItem => mem[k].obj.kind # "out"

\* where the worker of a GetObject call is while its loader has not returned
BeforeLoaderReturns ==
    {"gStart", "gMem", "gSf", "gWait", "gRds", "rEnter", "rWait", "rLoad", "rLoading"}

\* no other caller, no SetObject and no Delete has been at work
Alone(c) ==
    /\ \A d \in Slots \ {c} : call[d].kind = "none"
    /\ ~hist.sets /\ ~hist.dels

\* C5: a GetObject call whose context is done before the loader returns
\* returns the context's error, and its worker goes on: once it has loaded
\* and finished without error, the loader's value is in the memory tier and
\* in Redis (no other caller interfering).
C5_CtxErrorAndBackgroundLoad ==
    \A c \in Slots :
        (call[c].kind = "get" /\ ctxDone[c] /\ call[c].ctxAt \in BeforeLoaderReturns)
        => /\ cpc[c] = "returned"
           /\ ErrorsIs(res[c], CtxErr)
           /\ (pc[W(c)] = "send" /\ loc[W(c)].err = Nil /\ loc[W(c)].o # NoObj /\ Alone(c))
               => /\ mem[call[c].key] = newItem(loc[W(c)].o, call[c].ttl)
                  /\ rdsPresent(call[c].key)
                  /\ redis[call[c].key].val = Deref(loc[W(c)].o)

\* the context fired while the loader was running; the caller has the
\* context's error and the worker has since stored the loader's value
C5_Witness ==
    \E c \in Slots :
        /\ Returned(c, "get") /\ ErrorsIs(res[c], CtxErr)
        /\ call[c].ctxAt = "rLoading"
        /\ pc[W(c)] = "send" /\ loc[W(c)].err = Nil /\ Alone(c)
        /\ mem[call[c].key].obj = Ref("ld", 1)
        /\ redis[call[c].key].val = 1

\* C6 as stated: whichever of GetObject, SetObject and Delete is in progress,
\* a context cancelled before the work finishes makes the call return the
\* context's error.
C6_AllThreeRaceCtx ==
    \A c \in Slots :
        (ctxDone[c] /\ call[c].ctxAt # "send")
        => cpc[c] = "returned" /\ ErrorsIs(res[c], CtxErr)

\* C6 amended: GetObject (on an enabled cache) and SetObject run their work
\* in a goroutine raced against ctx and return the context's error when ctx
\* is done before the work finishes; Delete runs in the caller's goroutine,
\* goes on after ctx is done and never returns the context's error.
C6_GetAndSetRaceCtx ==
    \A c \in Slots :
        /\ (call[c].kind \in {"get", "set"} /\ ctxDone[c] /\ call[c].ctxAt # "send")
           => cpc[c] = "returned" /\ ErrorsIs(res[c], CtxErr)
        /\ (call[c].kind = "delete" /\ ctxDone[c])
           => /\ cpc[c] \in {"dRds", "dPub", "returned"}
              /\ cpc[c] = "returned" => res[c] \in {Nil, WithStack(RedisErr)}

\* a SetObject gave up on its context while a Delete whose context was
\* cancelled ran to its end and returned nil
C6_Witness ==
    \E c, d \in Slots :
        /\ Returned(c, "set") /\ ErrorsIs(res[c], CtxErr) /\ pc[W(c)] = "send"
        /\ Returned(d, "delete") /\ ctxDone[d] /\ res[d] = Nil
        /\ redis[call[d].key] = NoEntry

NothingStored ==
    /\ \A k \in Keys : mem[k] = NoItem /\ redis[k] = NoEntry
    /\ channel = <<>>

C8_LoaderErrorReturned ==
    (hist.outcomes # <<>> /\ LoaderAlways({"error"}))
    => /\ \A c \in Slots : Returned(c, "get") => res[c] = LoaderErr
       /\ NothingStored

\* both concurrent calls returned the error of the one loader call
C8_Witness ==
    /\ hist.outcomes = <<"error">>
    /\ \A c \in Slots : Returned(c, "get") /\ res[c] = LoaderErr /\ Got(c) = ZeroValue
    /\ NothingStored

\* where a goroutine is while it takes part in a resetObject flight
InReset == {"rEnter", "rWait", "rLoad", "rLoading", "rMem", "rRds", "rPub"}
\* where the worker of a GetObject call is once the destination is filled
AfterCopy == {"gRet", "send"}

ReturnsExpired(c) ==
    /\ call[c].kind = "get" /\ call[c].gp = GetPolicyReturnExpired
    /\ Recorded(c, "get_mem_expired")

\* a GetObject call that recorded get_mem_expired under GetPolicyReturnExpired
\* never reads Redis nor takes part in a reload; once its copy is made it has
\* no error, the destination holds the stale value, and the asynchronous
\* reload is running or has recorded async_load
StaleReturnedAtOnce(c) ==
    /\ pc[W(c)] \notin InReset \cup {"gSf", "gWait", "gRds", "gMemSet"}
    /\ pc[W(c)] \in AfterCopy
       => /\ loc[W(c)].err = Nil
          /\ Got(c) = loc[W(c)].staleVal
    /\ pc[W(c)] \in AfterCopy \cup {"none"}
       => /\ pc[A(c)] # "none" \/ Recorded(c, "async_load")
          /\ cpc[c] = "returned" => res[c] = Nil

\* the asynchronous reload has ended without error, and no write-through of
\* an older Redis entry nor a set message has been applied
ReloadedUndisturbed(c) ==
    /\ pc[A(c)] = "aEnd" /\ loc[A(c)].err = Nil
    /\ ~hist.wrote /\ ~hist.applied

\* the memory tier holds the Item of a later load than the stale one
EntryReplaced(c) ==
    /\ mem[call[c].key] # NoItem
    /\ mem[call[c].key].obj.kind = "ld"
    /\ mem[call[c].key].obj.id > loc[A(c)].staleVal

\* C9 as stated: under GetPolicyReturnExpired a GetObject call that finds the
\* key expired in the memory tier returns the stale value at once, and the
\* successful end of the asynchronous reload it starts has always replaced
\* the entry with a fresh Item.
C9_ReloadAlwaysReplaces ==
    \A c \in Slots :
        ReturnsExpired(c)
        => /\ StaleReturnedAtOnce(c)
           /\ ReloadedUndisturbed(c) => EntryReplaced(c)

\* C9 amended: the stale value is returned at once and the asynchronous
\* reload is followed by async_load; its successful end has replaced the
\* entry with the Item of a later load when no reload of the key was already
\* in progress at the moment the call found the key expired.
C9_ReturnExpired ==
    \A c \in Slots :
        ReturnsExpired(c)
        => /\ StaleReturnedAtOnce(c)
           /\ (ReloadedUndisturbed(c) /\ ~loc[A(c)].busy) => EntryReplaced(c)

\* the call returned the stale value of the first load while the reload it
\* started put the second load into the memory tier and recorded async_load
C9_Witness ==
    \E c \in Slots :
        /\ Returned(c, "get") /\ call[c].gp = GetPolicyReturnExpired
        /\ Recorded(c, "get_mem_expired") /\ Recorded(c, "async_load")
        /\ res[c] = Nil /\ Got(c) = 1
        /\ mem[call[c].key].obj = Ref("ld", 2)
        /\ ~Expired(mem[call[c].key])

ReloadsOnExpiry(c) ==
    /\ call[c].kind = "get" /\ call[c].gp = GetPolicyReloadOnExpiry
    /\ loc[W(c)].expired /\ pc[W(c)] \in {"gCopy"} \cup AfterCopy

\* the call got past its deferred function only through resetObject; when
\* that succeeded the destination holds the value resetObject returned, and
\* when it failed the call's error is the reload's
ReturnsReloadResult(c) ==
    /\ loc[W(c)].ret = "defer"
    /\ (pc[W(c)] \in AfterCopy /\ loc[W(c)].err = Nil)
       => /\ loc[W(c)].it.obj.kind = "ld"
          /\ Got(c) = loc[W(c)].it.obj.id
    /\ loc[W(c)].err # Nil
       => loc[W(c)].err \in {loadError(o) : o \in LoaderOutcomes \ {"ok"}}

\* the destination holds the value of a later load than the expired one
GotFresh(c) ==
    (pc[W(c)] \in AfterCopy /\ loc[W(c)].err = Nil) => Got(c) > loc[W(c)].staleVal

\* C10 as stated: under GetPolicyReloadOnExpiry a GetObject call that found
\* the key expired returns only after resetObject, and the value copied is
\* always a freshly loaded one, never the expired one.
C10_NeverTheExpiredValue ==
    \A c \in Slots : ReloadsOnExpiry(c) => ReturnsReloadResult(c) /\ GotFresh(c)

\* C10 amended: the call returns only after resetObject, with its error or
\* with its value copied into the destination; that value is of a later load
\* than the expired one when no reload of the key was already in progress at
\* the moment the call found the key expired.
C10_ReloadOnExpiry ==
    \A c \in Slots :
        ReloadsOnExpiry(c)
        => /\ ReturnsReloadResult(c)
           /\ ~loc[W(c)].busy => GotFresh(c)

\* the call found the first load expired in the memory tier, waited for the
\* second load and holds its value
C10_Witness ==
    \E c \in Slots :
        /\ call[c].kind = "get" /\ call[c].gp = GetPolicyReloadOnExpiry
        /\ Recorded(c, "get_mem_expired") /\ loc[W(c)].expired
        /\ pc[W(c)] = "send" /\ loc[W(c)].err = Nil
        /\ loc[W(c)].staleVal = 1 /\ Got(c) = 2

\* the memory tier, Redis, the channel and the other process are left alone
TiersUntouched == UNCHANGED <<mem, redis, channel, peer, sfg, onError>>

\* C11: on a disabled cache every GetObject call invokes the loader exactly
\* once, when it starts, and on the loader's return either copies the
\* loader's value into the destination and returns nil or returns the
\* loader's own error; neither step reads or writes the memory tier or
\* Redis, and neither publishes.
C11_DisabledCallsLoaderOnly ==
    [][\A c \in Slots :
        /\ (cpc[c] # "disabledLoad" /\ cpc'[c] = "disabledLoad")
           => /\ options.Disabled
              /\ loads' = loads + 1
              /\ metrics'[c] = <<>>
              /\ TiersUntouched
        /\ (cpc[c] = "disabledLoad" /\ cpc'[c] # "disabledLoad")
           => /\ loads' = loads
              /\ metrics'[c] = <<>>
              /\ TiersUntouched
              /\ cpc'[c] = "returned"
                  => \/ res'[c] = Nil /\ out'[call[c].dst] = Deref(loc[W(c)].o)
                     \/ res'[c] = LoaderErr /\ out' = out]_vars

\* the cache was filled by a first call and then disabled: the second call
\* got the second loader value while both tiers still hold the first
C11_Witness ==
    \E c \in Slots, k \in Keys :
        /\ Returned(c, "getDisabled") /\ res[c] = Nil /\ Got(c) = 2
        /\ loads = 2
        /\ mem[k] # NoItem /\ Deref(mem[k].obj) = 1
        /\ rdsPresent(k) /\ redis[k].val = 1

\* what the call of slot c found in the two tiers
FoundAbsent(c) == Recorded(c, "get_mem_miss") /\ Recorded(c, "get_redis_miss")
FoundExpired(c) == Recorded(c, "get_mem_expired") \/ Recorded(c, "get_redis_expired")
FoundFresh(c) == Recorded(c, "get_mem_hit") \/ Recorded(c, "get_redis_hit")

\* C12: on an enabled cache the loader is invoked only by a goroutine whose
\* call found the key absent from the memory tier and from Redis, or found it
\* expired; and the goroutines of a call served by a fresh entry of the
\* memory tier or of Redis never enter resetObject.
C12_LoaderOnlyOnMissOrExpiry ==
    /\ [](\A c \in Slots :
            FoundFresh(c) => pc[W(c)] \notin InReset /\ pc[A(c)] \notin InReset)
    /\ [][loads' # loads
          => \E g \in Gor :
                /\ pc[g] = "rLoad" /\ pc'[g] = "rLoading"
                /\ loads' = loads + 1
                /\ FoundAbsent(SlotOf(g)) \/ FoundExpired(SlotOf(g))]_vars

\* one call found nothing and loaded; another found the fresh entry in the
\* memory tier and returned the same value with a single loader call made
C12_Witness ==
    \E c, d \in Slots :
        /\ Returned(c, "get") /\ FoundAbsent(c) /\ Recorded(c, "load")
        /\ Returned(d, "get") /\ Recorded(d, "get_mem_hit") /\ res[d] = Nil
        /\ Got(d) = 1 /\ loads = 1

\* the call of slot c has returned from a successful write: a SetObject, or
\* a GetObject that loaded
SuccessfulWrite(c) ==
    /\ cpc[c] = "returned" /\ res[c] = Nil
    /\ call[c].kind = "set" \/ (call[c].kind = "get" /\ Recorded(c, "load"))
\* the value that write stored
Written(c) == IF call[c].kind = "set" THEN 10 + c ELSE Got(c)
\* no other write of this process stored after it
LastWrite(c) == hist.lastWrite # NoObj /\ Deref(hist.lastWrite) = Written(c)
\* the other process has published nothing
NoPeerBroadcast == ~(peer.wrote /\ publishes(cacheSet, options.UpdatePolicy))
\* what a GetObject made now would find in the memory tier
MemHolds(k, v) == mem[k] # NoItem /\ ~Expired(mem[k]) /\ Deref(mem[k].obj) = v

\* C13: once a successful write (a load or a SetObject) has returned, and
\* with no delete, no broadcast of another process, no expiry and no later
\* write, the memory tier of the writing process holds the written value, so
\* that a GetObject made there returns it.
C13_WriterSeesOwnWrite ==
    \A c \in Slots :
        (SuccessfulWrite(c) /\ LastWrite(c) /\ NoPeerBroadcast /\ ~hist.dels)
        => MemHolds(call[c].key, Written(c))

\* the values a write of this process can store: what the loader returns
\* and what SetObject is given
Values == (1..MaxCalls) \cup {10 + c : c \in Slots}
PeerHolds(k, v) == peer.mem[k] # NoItem /\ Deref(peer.mem[k].obj) = v
\* the last message published, not yet received by the other process, is
\* the set of value v for key k
LastPublished(k, v) ==
    /\ peer.chan # <<>>
    /\ peer.chan[Len(peer.chan)] = [action |-> cacheSet, key |-> k, payload |-> marshal(v)]

\* C14: when a load or a SetObject of this process has published its set
\* message and the other process has registered the type, the memory tier of
\* the other process eventually holds the written value, unless a later
\* write or delete is published before that.
C14_PeerConverges ==
    \A k \in Keys, v \in Values :
        (peer.reg /\ LastPublished(k, v))
            ~> (PeerHolds(k, v) \/ (peer.chan # <<>> /\ ~LastPublished(k, v)))

\* a SetObject under UpdatePolicyBroadcast has returned and the other
\* process has decoded its value into its own memory tier
C14_Witness ==
    \E c \in Slots :
        /\ Returned(c, "set") /\ res[c] = Nil
        /\ options.UpdatePolicy = UpdatePolicyBroadcast
        /\ peer.chan = <<>>
        /\ peer.mem[call[c].key].obj = Ref("dec", 10 + c)
        /\ MemHolds(call[c].key, 10 + c)

DeleteRequest(k) == [action |-> cacheDelete, key |-> k, payload |-> <<>>]
\* a delete of key k is among the messages ch
DeletePending(ch, k) == \E i \in 1..Len(ch) : ch[i] = DeleteRequest(k)
\* the subscription ch hands over its next message, a delete
ReceivesDelete(ch, chNext) ==
    ch # <<>> /\ chNext = Tail(ch) /\ Head(ch).action = cacheDelete

\* C15: Delete deletes the key from Redis first (del_redis) and publishes
\* the delete to every subscription after that (del_cache); no step of Delete
\* touches a memory tier; each process, the caller's own included, removes
\* the key from its memory tier when its subscriber receives the message
\* (del_mem), and every published delete is eventually received.
C15_DeleteByBroadcast ==
    /\ [][\A c \in Slots :
            (call'[c].kind = "delete" /\ cpc'[c] # cpc[c])
            => /\ mem' = mem /\ peer'.mem = peer.mem /\ hist'.delMem = hist.delMem
               /\ cpc'[c] = "dRds"
                  => redis' = redis /\ channel' = channel /\ peer' = peer
               /\ cpc[c] = "dRds"
                  => /\ cpc'[c] = "dPub"
                     /\ redis'[call[c].key] = NoEntry
                     /\ channel' = channel /\ peer' = peer
                     /\ metrics'[c] = <<"del_redis">>
               /\ cpc[c] = "dPub"
                  => /\ cpc'[c] = "returned" /\ res'[c] = Nil
                     /\ redis' = redis
                     /\ channel' = Append(channel, DeleteRequest(call[c].key))
                     /\ peer'.chan = Append(peer.chan, DeleteRequest(call[c].key))
                     /\ metrics'[c] = <<"del_redis", "del_cache">>]_vars
    /\ [][/\ ReceivesDelete(channel, channel')
             => mem'[Head(channel).key] = NoItem /\ hist'.delMem
          /\ ReceivesDelete(peer.chan, peer'.chan)
             => peer'.mem[Head(peer.chan).key] = NoItem]_vars
    /\ \A k \in Keys :
          /\ DeletePending(channel, k) ~> (mem[k] = NoItem /\ hist.delMem)
          /\ DeletePending(peer.chan, k) ~> (peer.mem[k] = NoItem)

\* both processes held the key; Delete has returned with the entry of the
\* caller's process still in its memory tier, Redis already without the key
\* and the delete not yet received by either subscriber
C15_Witness ==
    \E c \in Slots, k \in Keys :
        /\ Returned(c, "delete") /\ res[c] = Nil /\ call[c].key = k
        /\ metrics[c] = <<"del_redis", "del_cache">>
        /\ redis[k] = NoEntry
        /\ mem[k] # NoItem /\ peer.mem[k] # NoItem
        /\ channel = <<DeleteRequest(k)>> /\ peer.chan = <<DeleteRequest(k)>>
        /\ ~hist.delMem

SetRequest(k, v) == [action |-> cacheSet, key |-> k, payload |-> marshal(v)]
\* how many set messages are among the messages ch
SetsIn(ch) == Cardinality({i \in 1..Len(ch) : ch[i].action = cacheSet})
\* the PUBLISH failed: nothing reaches the channel and OnError is told
PublishFailed ==
    channel' = channel /\ onError' = onError + 1 /\ faultsLeft' = faultsLeft - 1

RedisHolds(k, v) == rdsPresent(k) /\ redis[k].val = v

\* C17: at the moment SetObject(key, v, ttl) returns nil, when no write,
\* delete or expiry can have come after it, the memory tier of the process
\* holds a fresh entry equal to v, which a GetObject returns without calling
\* the loader, and Redis holds v as well.
C17_SetThenGet ==
    [][\A c \in Slots :
        (call[c].kind = "set" /\ cpc[c] = "select" /\ cpc'[c] = "returned"
         /\ res'[c] = Nil /\ ~peer.wrote)
        => (MemHolds(call[c].key, 10 + c) /\ RedisHolds(call[c].key, 10 + c))']_vars

\* the goroutine g completes the Redis write of resetObject or setObject
WritesRedis(g) ==
    \/ pc[g] = "rRds" /\ pc'[g] = "rPub"
    \/ pc[g] = "sRds" /\ pc'[g] = "sPub"

\* C18: New turns an unspecified RedisTTLFactor into 4; every Redis write
\* of a load or of SetObject with a memory ttl above zero gives the key a
\* Redis TTL of the ttl's seconds times RedisTTLFactor, counted from the
\* write, and a write with ttl 0 stores the key without Redis expiry.
C18_RedisTTLAmplified ==
    /\ [](options.RedisTTLFactor = DefaultRedisTTLFactor)
    /\ [][\A g \in Gor :
            WritesRedis(g)
            => LET e == redis'[loc[g].key]
                   ttl == loc[g].ttl IN
               /\ e.present /\ e.val = Deref(loc[g].o)
               /\ ttl > 0 => /\ e.ttlSec = (ttl \div Second) * options.RedisTTLFactor
                             /\ e.killAt = now + e.ttlSec * Second
               /\ ttl = 0 => e.ttlSec = 0 /\ e.killAt = 0]_vars

\* a value written with a ttl of two seconds: the memory tier lets it
\* expire after two seconds, Redis keeps it for eight
C18_Witness ==
    \E k \in Keys :
        /\ mem[k] # NoItem /\ mem[k].expireAt = 2 * Second
        /\ rdsPresent(k) /\ redis[k].val = Deref(mem[k].obj)
        /\ redis[k].ttlSec = 8 /\ redis[k].killAt = 8 * Second

\* metric a is recorded for the call of slot c before metric b is
Precedes(c, a, b) ==
    \E i, j \in 1..Len(metrics[c]) :
        i < j /\ metrics[c][i] = a /\ metrics[c][j] = b
\* the call of slot c is the only one made so far, and it has returned
\* the error of a failed Redis command
OnlyCallFailed(c) ==
    /\ \A d \in Slots \ {c} : call[d].kind = "none"
    /\ callsLeft = MaxCalls - 1
    /\ cpc[c] = "returned" /\ call[c].kind \in {"get", "set"}
    /\ ErrorsIs(res[c], RedisErr)
\* the object the write of the call of slot c stores
WrittenObject(c) == IF call[c].kind = "set" THEN Ref("arg", 10 + c) ELSE Ref("ld", 1)

Loading(k) == {g \in Gor : pc[g] = "rLoading" /\ loc[g].key = k}
\* where the goroutine that runs the function of a "_reset" flight is
LeadsReset == {"rLoad", "rLoading", "rMem", "rRds", "rPub"}

\* C20: at most one goroutine of the process runs the loader for a key at
\* any instant: whichever way a reload started (a get that found the key
\* absent, a get that reloads on expiry, an asynchronous reload of a stale
\* entry), the goroutine inside resetObject is the leader of the key's one
\* "_reset" flight, and every other goroutine that entered resetObject
\* meanwhile waits for that flight.
C20_OneLoaderPerKey ==
    \A k \in Keys :
        /\ Cardinality(Loading(k)) <= 1
        /\ \A g \in Gor :
            /\ (pc[g] \in LeadsReset /\ loc[g].key = k) => sfg.reset[k].leader = g
            /\ (pc[g] = "rWait" /\ loc[g].key = k)
               => /\ g \in sfg.reset[k].waiters
                  /\ sfg.reset[k].leader \notin {NoGor, g}
                  /\ pc[sfg.reset[k].leader] \in LeadsReset

\* the loader runs for a get that found the key absent, while the
\* asynchronous reload of a call that read a stale entry waits for it
C20_Witness ==
    \E g, h \in Gor :
        /\ pc[g] = "rLoading" /\ loc[g].ret = "get"
        /\ pc[h] = "rWait" /\ loc[h].ret = "async" /\ loc[h].key = loc[g].key
        /\ loads = 1

\* the call shared a "_get" flight that found the Redis entry expired, under
\* GetPolicyReloadOnExpiry, while no reload of the key was in progress
SharedExpiredFlight(c) ==
    /\ call[c].kind = "get" /\ call[c].gp = GetPolicyReloadOnExpiry
    /\ loc[W(c)].flightStale # 0 /\ ~loc[W(c)].busy
    /\ pc[W(c)] \in AfterCopy /\ loc[W(c)].err = Nil

\* C21: every GetObject call under GetPolicyReloadOnExpiry that shared a
\* "_get" flight which found the Redis entry present but expired, the
\* flight's waiters as well as its leader, treats the entry as expired: it
\* reloads, and the value copied into its destination is never the expired
\* one.
C21_SharedFlightExpired ==
    \A c \in Slots :
        SharedExpiredFlight(c)
        => /\ loc[W(c)].expired
           /\ Got(c) # loc[W(c)].flightStale

\* the GetObject call missed the memory tier and read a fresh entry from Redis
RedisHit(c) == call[c].kind = "get" /\ Recorded(c, "get_redis_hit")

\* C22: a GetObject call that misses the memory tier and finds a non-expired
\* entry in Redis writes that Item into the memory tier, never enters
\* resetObject nor records a load, and returns nil with the value it read;
\* its metrics are get_mem_miss, get_redis_hit, set_mem, get_cache.
C22_RedisHitWrittenThrough ==
    /\ [][\A c \in Slots :
            pc[W(c)] = "gMemSet" /\ pc'[W(c)] # "gMemSet"
            => /\ mem'[call[c].key] = loc[W(c)].it
               /\ ~Expired(loc[W(c)].it)
               /\ Deref(loc[W(c)].it.obj) = loc[W(c)].hitVal
               /\ loads' = loads]_vars
    /\ [](\A c \in Slots :
            RedisHit(c)
            => /\ pc[W(c)] \notin InReset /\ pc[A(c)] = "none"
               /\ ~Recorded(c, "load")
               /\ pc[W(c)] = "send"
                  => /\ loc[W(c)].err = Nil
                     /\ Got(c) = loc[W(c)].hitVal
                     /\ metrics[c] = <<"get_mem_miss", "get_redis_hit",
                                       "set_mem", "get_cache">>)

\* a call has returned the other process's value from Redis, and the memory
\* tier holds the entry it read
C22_Witness ==
    \E c \in Slots :
        /\ RedisHit(c) /\ pc[W(c)] = "send"
        /\ Got(c) = 10 + NumSlots + 1
        /\ MemHolds(call[c].key, 10 + NumSlots + 1)
        /\ loads = 0

\* the GetObject call missed the memory tier and read an expired entry from
\* Redis, under GetPolicyReturnExpired
RedisExpired(c) ==
    /\ call[c].kind = "get" /\ call[c].gp = GetPolicyReturnExpired
    /\ Recorded(c, "get_redis_expired")

\* what the goroutine serving the call records itself
OwnMetrics(c) ==
    SelectSeq(metrics[c], LAMBDA m : m \in {"get_mem_miss", "get_mem_hit", "get_mem_expired",
                                            "get_redis_miss", "get_redis_hit",
                                            "get_redis_expired", "get_cache"})

\* the memory tier holds a loaded Item that has not expired
Reloaded(k) == mem[k] # NoItem /\ mem[k].obj.kind = "ld" /\ ~Expired(mem[k])

AfterSweep(c) ==
    /\ call[c].kind = "get" /\ loc[W(c)].swept
    /\ pc[W(c)] = "send"

\* the call has started an asynchronous load
AsyncScheduled(c) == pc[A(c)] # "none" \/ Recorded(c, "async_load")

\* C24 as stated: with memory ttl 1s and factor 4, the GetObject call that
\* follows the expiry and the drop of the memory entry, before the Redis key
\* expires, records get_mem_miss, get_redis_hit, set_mem, get_cache and
\* schedules an asynchronous load.
C24_MemExpiredRedisFresh ==
    \A c \in Slots :
        AfterSweep(c)
        => /\ OwnMetrics(c) = <<"get_mem_miss", "get_redis_hit", "get_cache">>
           /\ Recorded(c, "set_mem")
           /\ AsyncScheduled(c)

\* C24 amended: the Redis envelope expires with the memory entry it was
\* written with, so that call records get_mem_miss, get_redis_expired,
\* get_cache, writes nothing into the memory tier itself, returns nil with
\* the stale value and schedules an asynchronous load; and a call that
\* records get_redis_hit never schedules one.
C24_MemExpiredRedisExpired ==
    \A c \in Slots :
        /\ AfterSweep(c)
           => /\ OwnMetrics(c) = <<"get_mem_miss", "get_redis_expired", "get_cache">>
              /\ loc[W(c)].err = Nil
              /\ Got(c) = loc[W(c)].staleVal
              /\ AsyncScheduled(c)
        /\ RedisHit(c) => ~AsyncScheduled(c)

\* a second after the first load, with its memory entry dropped and the
\* Redis key three seconds from running out, the next call has returned the
\* stale value
C24_Witness ==
    \E c \in Slots :
        /\ AfterSweep(c) /\ Got(c) = 1 /\ loads = 1
        /\ rdsPresent(call[c].key) /\ redis[call[c].key].killAt > now + Second
        /\ redisTTL(call[c].ttl) = DefaultRedisTTLFactor
        /\ pc[A(c)] = "rEnter"

\* the GET of the call's "_get" flight failed
GetFailed(c) == call[c].kind = "get" /\ loc[W(c)].getFailed

\* C25: a Redis GET that fails with an error other than key-absent ends the
\* "_get" flight with that error, wrapped by WithStack, leaving the memory
\* tier, Redis and the loader alone; every call of the flight returns the
\* error without entering resetObject, copying or recording get_cache; and
\* a call goes on from the Redis read to the loader only when the key is
\* absent.
C25_RedisGetErrorReturned ==
    /\ [][\A g \in Gor :
            pc[g] = "gRds" /\ pc'[g] # "gRds" /\ faultsLeft' < faultsLeft
            => /\ pc'[g] = "gDefer"
               /\ loc'[g].err = WithStack(RedisErr) /\ ~loc'[g].expired
               /\ mem' = mem /\ redis' = redis /\ loads' = loads /\ out' = out]_vars
    /\ [][\A g \in Gor :
            pc[g] = "gRds" /\ pc'[g] = "rEnter"
            => /\ ~rdsPresent(loc[g].key)
               /\ faultsLeft' = faultsLeft]_vars
    /\ [](\A c \in Slots :
            /\ GetFailed(c)
               => /\ loc[W(c)].err = WithStack(RedisErr)
                  /\ pc[W(c)] \notin InReset \cup {"gMemSet"}
                  /\ pc[A(c)] = "none"
                  /\ \A m \in {"load", "set_mem", "set_redis", "get_cache"} :
                        ~Recorded(c, m)
                  /\ Got(c) = ZeroValue
            /\ call[c].kind = "get" /\ pc[W(c)] \in {"gStart", "gMem", "gSf"}
               => ~loc[W(c)].getFailed)
    /\ [][\A c \in Slots :
            GetFailed(c) /\ cpc[c] # "returned" /\ cpc'[c] = "returned"
            => res'[c] = WithStack(RedisErr)]_vars

\* the only call made has returned the error of its failed GET; nothing was
\* loaded or stored
C25_Witness ==
    \E c \in Slots :
        /\ hist.getFailed /\ Returned(c, "get")
        /\ res[c] = WithStack(RedisErr)
        /\ metrics[c] = <<"get_mem_miss">>
        /\ loads = 0 /\ NothingStored

\* goroutine g ends the publish step of its write, and the flight it leads,
\* without an error
WritePublished(g) ==
    /\ pc[g] \in {"rPub", "sPub"} /\ pc'[g] # pc[g]
    /\ \A q \in Gor : pc'[q] # pc[q] => loc'[q].err = Nil

\* every Redis command that has failed so far was a PUBLISH
OnlyPublishFailed == onError > 0 /\ onError + faultsLeft = MaxFaults

\* the Delete call of slot c ends its publish step with nil
DeletePublished(c) ==
    /\ cpc[c] = "dPub" /\ cpc'[c] = "returned"
    /\ res'[c] = Nil
    /\ metrics'[c] = <<"del_redis", "del_cache">>

\* C26: a broadcast that cannot be published (the encoding or the PUBLISH
\* fails) is reported to OnError and to nobody else: the step leaves the
\* channel, the memory tier and Redis as they are, the write or the Delete
\* it belongs to goes on without an error, and while no other Redis command
\* has failed every call returns nil.
C26_PublishErrorToOnError ==
    /\ [][onError' # onError
          => /\ onError' = onError + 1
             /\ channel' = channel /\ mem' = mem /\ redis' = redis
             /\ \/ \E g \in Gor : WritePublished(g)
                \/ \E c \in Slots : DeletePublished(c)]_vars
    /\ [](OnlyPublishFailed
          => /\ \A c \in Slots : cpc[c] = "returned" => res[c] = Nil
             /\ \A g \in Gor : loc[g].err = Nil)

\* a SetObject whose PUBLISH failed has returned nil; its value is in the
\* memory tier and in Redis, and no message was sent
C26_Witness ==
    \E c \in Slots :
        /\ onError = 1 /\ Returned(c, "set") /\ res[c] = Nil
        /\ \A d \in Slots \ {c} : call[d].kind = "none"
        /\ MemHolds(call[c].key, 10 + c) /\ RedisHolds(call[c].key, 10 + c)
        /\ channel = <<>>

\* the subscriber takes the message at the head of the channel
Receives(action) ==
    /\ channel # <<>> /\ channel' = Tail(channel)
    /\ Head(channel).action = action

C29_RegisteredOnce == [][types.reg => types' = types]_vars

\* C28: on a set message of a registered type the subscriber replaces the
\* memory entry of the message's key, whatever it holds, with a new Item: the
\* object decoded from the payload, the payload's length as size, and the
\* time of receipt plus the ttl registered for the type as expiry, which
\* need not be the ttl the writer passed.
C28_SetMessageReplaces ==
    [][Receives(cacheSet) /\ types.reg
       => mem'[Head(channel).key] =
              [obj |-> Ref("dec", unmarshal(Head(channel).payload)),
               size |-> Len(Head(channel).payload),
               expireAt |-> now + types.ttl]]_vars

\* SetObject with ttl 2s put an entry expiring in 2s into the memory tier;
\* its own set message, received at once, has replaced it with one expiring
\* in 1s, the ttl the type was registered with
C28_Witness ==
    \E c \in Slots :
        /\ Returned(c, "set") /\ call[c].ttl = 2 * Second
        /\ types.reg /\ types.ttl = Second /\ now = 0
        /\ hist.lastWrite = Ref("arg", 10 + c)
        /\ mem[call[c].key] # NoItem
        /\ mem[call[c].key].obj = Ref("dec", 10 + c)
        /\ mem[call[c].key].expireAt = Second

\* Receive has just answered with an error
ReceiveError == sub'.errsLeft < sub.errsLeft

\* C30: a receive error of the subscriber goes to OnError; when its text
\* tells of a closed or refused connection the subscriber takes a new
\* connection and subscribes again, otherwise it goes on receiving on the
\* same connection; and in both cases the subscriber keeps processing: it
\* never stops, and every message that reaches its subscription is taken
\* from it in the end.
C30_SubscriberKeepsProcessing ==
    /\ [][ReceiveError
          => /\ onError' = onError + 1
             /\ IF connInvalid(sub'.err)
                THEN sub'.st = "begin"
                ELSE sub'.st = "recv" /\ sub'.conn = sub.conn /\ channel' = channel]_vars
    /\ [][sub.st = "begin" /\ sub'.st = "recv" => sub'.conn = sub.conn + 1]_vars
    /\ [](sub.st # "off")
    /\ (sub.st = "begin") ~> (sub.st = "recv")
    /\ (channel # <<>>) ~> (channel = <<>>)

\* C31: the subscriber never holds more than one open connection of the
\* factory, reconnects included, and holds none once watch has returned.
C31_OneOpenConnection ==
    /\ sub.open <= 1
    /\ sub.st = "off" => sub.open = 0

\* the loads that ended with an error: the loader returned one or panicked
FailedLoads == {i \in DOMAIN hist.outcomes : hist.outcomes[i] # "ok"}

\* C32: with no Redis command failing, the only errors OnError can receive
\* are those of failed loads, and it receives each of them once: it is
\* never called more often than loads have failed, and an asynchronous
\* reload that ends with an error calls it once.
C32_OnErrorOncePerError ==
    /\ [](onError <= Cardinality(FailedLoads))
    /\ [][\A c \in Slots :
            pc[A(c)] = "aEnd" /\ pc'[A(c)] = "none" /\ loc[A(c)].err # Nil
            => onError' = onError + 1]_vars

\* a call has returned an error to its caller
ReturnedError(c) == cpc[c] = "returned" /\ res[c] # Nil

\* the loader of g's "_reset" flight has just failed
LoadFails(g) == pc[g] = "rLoading" /\ pc'[g] # "rLoading" /\ loc'[g].err # Nil

\* the asynchronous reload of slot c has just ended with an error
AsyncFails(c) == pc[A(c)] = "aEnd" /\ pc'[A(c)] = "none" /\ loc[A(c)].err # Nil

\* C33: an operation that ends with an error emits no metric of its own: a
\* call that returned an error has recorded none of get_cache, set_cache and
\* del_cache, a failed load records no load and an asynchronous reload that
\* ends with an error records no async_load.
C33_NoMetricOnError ==
    /\ [](\A c \in Slots :
            ReturnedError(c)
            => \A m \in {"get_cache", "set_cache", "del_cache"} : ~Recorded(c, m))
    /\ [][\A g \in Gor : LoadFails(g) => metrics' = metrics]_vars
    /\ [][\A c \in Slots : AsyncFails(c) => metrics'[c] = metrics[c]]_vars

\* a sweep of the janitor has ended
SweepDone == jan.pc = "idle" /\ jan.sweeps > 0

\* the entries of object type ty the sweep started with
EntriesBefore(ty) ==
    {k \in DOMAIN jan.before : objectType(k) = ty /\ jan.before[k] # NoItem}

RECURSIVE SumSize(_)
SumSize(ks) ==
    IF ks = {} THEN 0
    ELSE LET k == CHOOSE x \in ks : TRUE IN jan.before[k].size + SumSize(ks \ {k})

\* C34: after a sweep that nothing else interfered with, every entry that
\* had expired when the sweep started is gone, every entry that never
\* expires or has not expired yet is there as it was, nothing else has
\* changed, and the gauges reported for each object type are the number and
\* the summed Size of the entries the sweep started with, expired ones
\* included.
C34_SweepRemovesExpiredOnly ==
    SweepDone =>
        /\ \A k \in DOMAIN mem :
            LET it == jan.before[k] IN
            /\ mem[k] \in {it, NoItem}
            /\ it # NoItem /\ it.expireAt # 0 /\ it.expireAt < jan.t0 => mem[k] = NoItem
            /\ it # NoItem /\ ~Expired(it) => mem[k] = it
            /\ it # NoItem /\ it.expireAt = 0 => mem[k] = it
        /\ \A ty \in ObjectTypes :
            jan.gauges[ty] = [count |-> Cardinality(EntriesBefore(ty)),
                              memUsage |-> SumSize(EntriesBefore(ty))]

\* a sweep over three entries has removed the expired one of two entries of
\* one type and kept the other two, one of which never expires
C34_Witness ==
    /\ SweepDone
    /\ \A k \in JanitorKeys : jan.before[k] # NoItem
    /\ jan.before[namespacedKey("t#1")].expireAt = Second
    /\ mem[namespacedKey("t#1")] = NoItem
    /\ mem[namespacedKey("t#2")] # NoItem
    /\ mem[namespacedKey("t#2")].expireAt = 2 * Second
    /\ mem[namespacedKey("u#1")] # NoItem
    /\ mem[namespacedKey("u#1")].expireAt = 0
    /\ jan.gauges["t"] = [count |-> 2, memUsage |-> 2 * Len(marshal(1))]
    /\ jan.gauges["u"].count = 1

\* the janitor's callback has just removed the entry of key k
JanitorRemoves(k) ==
    /\ jan.pc = "visit" /\ jan'.pc = "range"
    /\ mem[k] # NoItem /\ mem'[k] = NoItem

\* C35: the janitor removes only expired Items, also when SetObject calls
\* store the key during its sweep: an entry replaced by a fresh Item after
\* the janitor was handed the expired one stays.
C35_JanitorKeepsFreshItem ==
    [][\A k \in DOMAIN mem : JanitorRemoves(k) => Expired(mem[k])]_vars

\* goroutine g has just stored an Item made by newItem in the memory tier
StoresNewItem(g) == pc[g] \in {"sMem", "rMem"} /\ pc'[g] \notin {"sMem", "rMem"}

\* goroutine g has just read an Item from the memory tier
ReadsItem(g) == pc[g] = "gMem" /\ pc'[g] = "gDefer"

\* C36: an Item made with a ttl that is not positive has ExpireAt 0 and one
\* made with a positive ttl has ExpireAt = the time it is made + ttl; an
\* Item with ExpireAt 0 is never expired, any other is not expired up to the
\* instant ExpireAt and expired at every later instant, and this is what a
\* read of the memory tier finds.
C36_ItemExpiry ==
    /\ [][\A g \in Gor :
            StoresNewItem(g)
            => mem'[loc[g].key].expireAt =
                    IF loc[g].ttl > 0 THEN now + loc[g].ttl ELSE 0]_vars
    /\ [](\A k \in DOMAIN mem :
            mem[k] # NoItem
            => /\ mem[k].expireAt = 0 => ~Expired(mem[k])
               /\ mem[k].expireAt # 0 => (Expired(mem[k]) <=> mem[k].expireAt < now))
    /\ [][\A g \in Gor :
            ReadsItem(g)
            => LET it == mem[loc[g].key] IN
               /\ loc'[g].expired = (it.expireAt # 0 /\ it.expireAt < now)
               /\ metrics'[SlotOf(g)] =
                    Append(metrics[SlotOf(g)],
                           IF it.expireAt # 0 /\ it.expireAt < now
                           THEN "get_mem_expired" ELSE "get_mem_hit")]_vars

\* an Item made with ttl 1s at time 0 was read as a hit at its instant of
\* expiry, one second after it was made
C36_Witness ==
    \E c \in Slots :
        /\ call[c].kind = "get" /\ pc[W(c)] = "gDefer"
        /\ mem[call[c].key].expireAt = Second /\ now = Second
        /\ ~loc[W(c)].expired
        /\ metrics[c] = <<"get_mem_hit">>

\* C37: a SetObject call that has returned nil has itself written its
\* object to the memory tier and to Redis, whatever other SetObject calls
\* on the key were in progress.
C37_SuccessfulSetWritten ==
    \A c \in Slots :
        Returned(c, "set") /\ res[c] = Nil
        => Recorded(c, "set_mem") /\ Recorded(c, "set_redis")

\* GetObject has returned the context error to the caller of slot c
ReturnedCtxError(c) ==
    Returned(c, "get") /\ ErrorsIs(res[c], CtxErr)

\* C38: from the moment GetObject has returned the context error, the
\* destination the caller passed is not written any more.
C38_NoWriteAfterCtxError ==
    [][\A c \in Slots :
        ReturnedCtxError(c) => out'[call[c].dst] = out[call[c].dst]]_vars

\* C39: the worker goroutine a GetObject or SetObject call has started
\* terminates in the end, whether or not its caller is still waiting for
\* the result.
C39_WorkerTerminates ==
    \A c \in Slots : (pc[W(c)] # "none") ~> (pc[W(c)] = "none")

\* a goroutine working for a GetObject call has just stored in the memory
\* tier: the write-through of a Redis hit or the loader's value
GetStores(g) ==
    /\ call[SlotOf(g)].kind = "get"
    /\ pc[g] \in {"gMemSet", "rMem"} /\ pc'[g] # pc[g]

====
